---- MODULE Spec2Model ----
(***************************************************************************)
(* code-grep: pattern matching (matcher.rs), parallel search (searcher.rs) *)
(* and line replacement (replacer.rs).                                     *)
(*                                                                         *)
(* A Rust `str` is modelled as the sequence of its UTF-8 bytes.  A byte is *)
(* a one-token string: "a", "A", "-" are one-byte characters; the pair     *)
(* "C3","A9" is the two-byte character U+00E9; "\n" is the line feed.      *)
(* Offsets are 0-based byte offsets as in the source; slicing a str at an  *)
(* offset that is not a character boundary, or out of range, panics.       *)
(***************************************************************************)
EXTENDS Integers, Sequences, FiniteSets, TLC

\* ------------------------------------------------------------------------
\* Bounds of the model
\* ------------------------------------------------------------------------
MaxTextChars == 3

\* ------------------------------------------------------------------------
\* str primitives (std): bytes, boundaries, slicing, find, to_lowercase
\* ------------------------------------------------------------------------
EAcute == <<"C3", "A9">>

ContBytes == {"A9"}

TextChars == {<<"a">>, <<"A">>, <<"-">>, EAcute}

RECURSIVE CharStrings(_)
CharStrings(n) ==
    IF n = 0 THEN {<<>>}
    ELSE LET shorter == CharStrings(n - 1)
         IN  shorter \cup {s \o c : s \in {t \in shorter : TRUE}, c \in TextChars}

Min(a, b) == IF a <= b THEN a ELSE b

\* str::is_char_boundary
IsCharBoundary(s, i) ==
    \/ i = 0
    \/ i = Len(s)
    \/ (i > 0 /\ i < Len(s) /\ s[i + 1] \notin ContBytes)

\* &s[i..j] does not panic
SliceOk(s, i, j) ==
    /\ 0 <= i /\ i <= j /\ j <= Len(s)
    /\ IsCharBoundary(s, i) /\ IsCharBoundary(s, j)

\* &s[i..j], bytes i (inclusive) to j (exclusive)
Slice(s, i, j) == SubSeq(s, i + 1, j)

\* str::find: byte offset of the first occurrence of needle, -1 for None
RECURSIVE FindFrom(_, _, _)
FindFrom(hay, needle, i) ==
    IF i + Len(needle) > Len(hay) THEN -1
    ELSE IF Slice(hay, i, i + Len(needle)) = needle THEN i
    ELSE FindFrom(hay, needle, i + 1)

Find(hay, needle) == FindFrom(hay, needle, 0)

LowerByte(b) == IF b = "A" THEN "a" ELSE b

\* str::to_lowercase
ToLower(s) == [k \in 1..Len(s) |-> LowerByte(s[k])]

\* Length in bytes of the character starting at byte offset i
CharLenAt(s, i) ==
    IF i + 2 <= Len(s) /\ s[i + 2] \in ContBytes THEN 2 ELSE 1

\* ------------------------------------------------------------------------
\* Match values and results.  A call either returns a list of Match or
\* panics (a slice outside a character boundary or out of range).
\* ------------------------------------------------------------------------
Match(s, e, t) == [start |-> s, end |-> e, text |-> t]

Returned(ms) == [panic |-> FALSE, matches |-> ms]

Panicked == [panic |-> TRUE, matches |-> <<>>]

\* ------------------------------------------------------------------------
\* PatternMatcher::Literal arm of find_matches
\* ------------------------------------------------------------------------
\* The while-let loop: `start` is the loop variable, `acc` is `matches`.
RECURSIVE LiteralLoop(_, _, _, _, _)
LiteralLoop(text, search_text, pattern, start, acc) ==
    IF ~SliceOk(search_text, start, Len(search_text)) THEN Panicked
    ELSE LET pos == Find(Slice(search_text, start, Len(search_text)), ToLower(pattern))
         IN  IF pos = -1 THEN Returned(acc)
             ELSE LET absolute_pos == start + pos
                      end_pos == absolute_pos + Len(pattern)
                  IN  IF ~SliceOk(text, absolute_pos, end_pos) THEN Panicked
                      ELSE LiteralLoop(text, search_text, pattern, absolute_pos + 1,
                               Append(acc, Match(absolute_pos, end_pos,
                                                 Slice(text, absolute_pos, end_pos))))

FindLiteral(pattern, text) == LiteralLoop(text, ToLower(text), pattern, 0, <<>>)

\* ------------------------------------------------------------------------
\* The regex engines (regex::Regex, fancy_regex::Regex) on the syntax the
\* model's patterns use: characters, '.', postfix '*', '|', groups and the
\* assertion \b.  Compilation parses the pattern string; a search is the
\* leftmost-first (backtracking priority) match, as both engines define it.
\* ------------------------------------------------------------------------
MetaChars == {".", "*", "+", "?", "^", "$", "|", "[", "]", "(", ")", "{", "}", "\\"}

Eps == [t |-> "eps"]

ParseOk(n, p) == [ok |-> TRUE, node |-> n, pos |-> p]

ParseErr == [ok |-> FALSE, node |-> Eps, pos |-> 0]

Peek(s, i) == IF i < Len(s) THEN s[i + 1] ELSE "EOF"

RECURSIVE ParseAlt(_, _), ParseCat(_, _), ParseStars(_, _, _), ParseAtom(_, _)

\* alt := cat ('|' alt)?
ParseAlt(s, i) ==
    LET l == ParseCat(s, i)
    IN  IF ~l.ok THEN ParseErr
        ELSE IF Peek(s, l.pos) = "|"
             THEN LET r == ParseAlt(s, l.pos + 1)
                  IN  IF ~r.ok THEN ParseErr
                      ELSE ParseOk([t |-> "alt", l |-> l.node, r |-> r.node], r.pos)
             ELSE l

\* cat := (atom '*'*)*      (an empty branch is the empty expression)
ParseCat(s, i) ==
    IF Peek(s, i) \in {"EOF", "|", ")"} THEN ParseOk(Eps, i)
    ELSE LET a == ParseAtom(s, i)
         IN  IF ~a.ok THEN ParseErr
             ELSE LET l == ParseStars(s, a.pos, a.node)
                      r == ParseCat(s, l.pos)
                  IN  IF ~r.ok THEN ParseErr
                      ELSE IF r.node.t = "eps" THEN l
                      ELSE ParseOk([t |-> "cat", l |-> l.node, r |-> r.node], r.pos)

ParseStars(s, i, n) ==
    IF Peek(s, i) = "*" THEN ParseStars(s, i + 1, [t |-> "star", r |-> n])
    ELSE ParseOk(n, i)

\* atom := '(' alt ')' | '.' | '\b' | character ; a leading '*' has nothing
\* to repeat, an unclosed group and an unknown escape are errors
ParseAtom(s, i) ==
    LET c == Peek(s, i)
    IN  CASE c = "(" ->
               LET g == ParseAlt(s, i + 1)
               IN  IF g.ok /\ Peek(s, g.pos) = ")" THEN ParseOk(g.node, g.pos + 1)
                   ELSE ParseErr
          [] c = "*" -> ParseErr
          [] c = "." -> ParseOk([t |-> "any"], i + 1)
          [] c = "\\" ->
               IF Peek(s, i + 1) = "b" THEN ParseOk([t |-> "wb"], i + 2) ELSE ParseErr
          [] OTHER ->
               LET n == CharLenAt(s, i)
               IN  ParseOk([t |-> "chr", c |-> Slice(s, i, i + n)], i + n)

\* Regex::new / RegexBuilder::build / FancyRegex::new: the syntax tree, or an
\* error when the string is not a regular expression (a ')' left over is an
\* unopened group)
Compile(s) ==
    LET r == ParseAlt(s, 0)
    IN  IF r.ok /\ r.pos = Len(s) THEN r ELSE ParseErr

IsWordAt(s, i) == i >= 0 /\ i < Len(s) /\ s[i + 1] \notin {"-", "\n"}

RECURSIVE Ends(_, _, _, _), EndsCat(_, _, _, _), EndsStar(_, _, _, _, _)

\* The ends of the matches of node n that start at byte offset i, in the
\* engine's order of preference (first = the match the engine reports).
\* ci: case-insensitive.
Ends(n, s, i, ci) ==
    CASE n.t = "eps" -> <<i>>
      [] n.t = "chr" ->
           LET j == i + Len(n.c)
           IN  IF j <= Len(s) /\ IsCharBoundary(s, j)
                  /\ (IF ci THEN ToLower(Slice(s, i, j)) = ToLower(n.c)
                            ELSE Slice(s, i, j) = n.c)
               THEN <<j>> ELSE <<>>
      [] n.t = "any" ->
           IF i < Len(s) /\ s[i + 1] # "\n" THEN <<i + CharLenAt(s, i)>> ELSE <<>>
      [] n.t = "wb" ->
           IF IsWordAt(s, i - 1) # IsWordAt(s, i) THEN <<i>> ELSE <<>>
      [] n.t = "alt" -> Ends(n.l, s, i, ci) \o Ends(n.r, s, i, ci)
      [] n.t = "cat" -> EndsCat(n.r, s, Ends(n.l, s, i, ci), ci)
      [] n.t = "star" -> EndsStar(n, s, i, Ends(n.r, s, i, ci), ci)

EndsCat(r, s, es, ci) ==
    IF es = <<>> THEN <<>>
    ELSE Ends(r, s, Head(es), ci) \o EndsCat(r, s, Tail(es), ci)

\* greedy: one more iteration first (only one that consumes), then stop
EndsStar(n, s, i, es, ci) ==
    IF es = <<>> THEN <<i>>
    ELSE (IF Head(es) > i THEN Ends(n, s, Head(es), ci) ELSE <<>>)
         \o EndsStar(n, s, i, Tail(es), ci)

NoSpan == [start |-> -1, end |-> -1]

\* Regex::find_at: the leftmost match starting at or after `start`
RECURSIVE FindAt(_, _, _, _)
FindAt(n, s, start, ci) ==
    IF start > Len(s) THEN NoSpan
    ELSE LET es == IF IsCharBoundary(s, start) THEN Ends(n, s, start, ci) ELSE <<>>
         IN  IF es # <<>> THEN [start |-> start, end |-> Head(es)]
             ELSE FindAt(n, s, start + 1, ci)

\* Regex::find_iter: successive non-overlapping matches; after an empty
\* match the search resumes one character further, and an empty match that
\* ends where the previous match ended is not reported
RECURSIVE FindIter(_, _, _, _, _, _), IterStep(_, _, _, _, _, _)
FindIter(n, s, ci, last_end, last_match, acc) ==
    IF last_end > Len(s) THEN acc
    ELSE IterStep(n, s, ci, last_match, acc, FindAt(n, s, last_end, ci))

IterStep(n, s, ci, last_match, acc, m) ==
    IF m = NoSpan THEN acc
    ELSE IF m.start = m.end
         THEN IF last_match = m.end
              THEN FindIter(n, s, ci, m.end + CharLenAt(s, m.end), last_match, acc)
              ELSE FindIter(n, s, ci, m.end + CharLenAt(s, m.end), m.end,
                       Append(acc, Match(m.start, m.end, <<>>)))
         ELSE FindIter(n, s, ci, m.end, m.end,
                  Append(acc, Match(m.start, m.end, Slice(s, m.start, m.end))))

\* as FindRegex, with the whole line as the text of every Match
FindRegex_LineAsText(re, text) ==
    LET ms == FindIter(re.node, text, re.ci, 0, -1, <<>>)
    IN  Returned([k \in 1..Len(ms) |-> [ms[k] EXCEPT !.text = text]])

FindRegex(re, text) == Returned(FindIter(re.node, text, re.ci, 0, -1, <<>>))

\* ------------------------------------------------------------------------
\* PatternMatcher (matcher.rs)
\* ------------------------------------------------------------------------
\* Option<String> is a sequence of zero or one strings.
None == <<>>

Some(x) == <<x>>

Ok(m) == [ok |-> TRUE, err |-> "", m |-> m]

Err(kind) == [ok |-> FALSE, err |-> kind, m |-> [kind |-> "None"]]

WordBoundary == <<"\\", "b">>

\* `regex_pattern`: the pattern wrapped in \b..\b when word_boundary is set
RegexPattern(pattern, c) ==
    IF c.word_boundary THEN WordBoundary \o pattern \o WordBoundary ELSE pattern

\* The `?` on the engine's constructor, then the matcher variant
Compiled(kind, re, c) ==
    IF re.ok THEN Ok([kind |-> kind, node |-> re.node, ci |-> ~c.case_sensitive])
    ELSE Err(IF kind = "Fancy" THEN "FancyRegex" ELSE "Regex")

\* as create_single_matcher, testing the regex flags before the literal flag
create_single_matcher_RegexFirst(pattern, c) ==
    IF c.fancy_regex THEN Compiled("Fancy", Compile(RegexPattern(pattern, c)), c)
    ELSE IF c.regex THEN Compiled("Basic", Compile(RegexPattern(pattern, c)), c)
    ELSE IF c.literal THEN Ok([kind |-> "Literal", pattern |-> pattern])
    ELSE IF \E k \in 1..Len(pattern) : pattern[k] \in MetaChars
    THEN Compiled("Basic", Compile(RegexPattern(pattern, c)), c)
    ELSE Ok([kind |-> "Literal", pattern |-> pattern])

RECURSIVE create_single_matcher(_, _)
create_single_matcher(pattern, c) ==
    IF c.literal THEN Ok([kind |-> "Literal", pattern |-> pattern])
    ELSE IF c.fancy_regex THEN Compiled("Fancy", Compile(RegexPattern(pattern, c)), c)
    ELSE IF c.regex THEN Compiled("Basic", Compile(RegexPattern(pattern, c)), c)
    ELSE IF \E k \in 1..Len(pattern) : pattern[k] \in MetaChars
    THEN create_single_matcher(pattern, [c EXCEPT !.regex = TRUE])
    ELSE Ok([kind |-> "Literal", pattern |-> pattern])

\* `matchers.push(Self::create_single_matcher(pattern, cli)?)` over the
\* patterns in order: the first error returns, else all the matchers
RECURSIVE PushAll(_, _, _), PushOne(_, _, _, _)
PushAll(patterns, c, matchers) ==
    IF patterns = <<>> THEN Ok(matchers)
    ELSE PushOne(create_single_matcher(Head(patterns), c), Tail(patterns), c, matchers)

PushOne(r, rest, c, matchers) ==
    IF r.ok THEN PushAll(rest, c, Append(matchers, r.m)) ELSE r

Multiple(r) == IF r.ok THEN Ok([kind |-> "Multiple", matchers |-> r.m]) ELSE r

RECURSIVE Join(_, _)
Join(parts, sep) ==
    IF parts = <<>> THEN <<>>
    ELSE IF Len(parts) = 1 THEN parts[1]
    ELSE parts[1] \o sep \o Join(Tail(parts), sep)

\* as PatternMatcherNew, asking for a primary pattern
PatternMatcherNew_NeedsPrimary(c) ==
    IF c.pattern # None THEN create_single_matcher(c.pattern[1], c) ELSE Err("Config")

\* PatternMatcher::new
PatternMatcherNew(c) ==
    IF c.and # <<>> THEN Multiple(PushAll(c.pattern \o c.and, c, <<>>))
    ELSE IF c.or # <<>>
    THEN create_single_matcher(<<"(">> \o Join(c.pattern \o c.or, <<"|">>) \o <<")">>, c)
    ELSE IF c.pattern # None THEN create_single_matcher(c.pattern[1], c)
    ELSE Err("Config")

\* find_matches of a Literal, Basic or Fancy matcher
FindSingle(m, text) ==
    IF m.kind = "Literal" THEN FindLiteral(m.pattern, text)
    ELSE FindRegex(m, text)

\* `matchers.iter().all(..)`: left to right, stopping at the first matcher
\* without a match; a panic inside a matcher unwinds through it
RECURSIVE AllMatch(_, _), AllStep(_, _, _)
AllMatch(matchers, text) ==
    IF matchers = <<>> THEN "true"
    ELSE AllStep(FindSingle(Head(matchers), text), Tail(matchers), text)

AllStep(r, rest, text) ==
    IF r.panic THEN "panic"
    ELSE IF r.matches = <<>> THEN "false"
    ELSE AllMatch(rest, text)

\* as FirstIfAll, without the requirement that every matcher matches
FirstIfAll_IgnoreOthers(all, first) ==
    IF all = "panic" THEN Panicked ELSE first

\* The Multiple arm: the first matcher's matches when all matchers match
FirstIfAll(all, first) ==
    IF all = "panic" THEN Panicked
    ELSE IF all = "true" THEN first
    ELSE Returned(<<>>)

\* PatternMatcher::find_matches
find_matches(m, text) ==
    FirstIfAll(IF m.kind = "Multiple" THEN AllMatch(m.matchers, text) ELSE "true",
               FindSingle(IF m.kind = "Multiple" THEN m.matchers[1] ELSE m, text))

\* PatternMatcher::is_match, where find_matches returns
is_match(m, text) == find_matches(m, text).matches # <<>>

\* ------------------------------------------------------------------------
\* OutputFormatter::print_line_match (output.rs): the text pieces printed
\* for one line, or a panic when a slice of line_text is not a valid range
\* ------------------------------------------------------------------------
RECURSIVE PrintLoop(_, _, _, _)
PrintLoop(line_text, matches, last_end, out) ==
    IF matches = <<>>
    THEN IF SliceOk(line_text, last_end, Len(line_text))
         THEN [panic |-> FALSE, out |-> out \o Slice(line_text, last_end, Len(line_text))]
         ELSE [panic |-> TRUE, out |-> <<>>]
    ELSE LET match_info == Head(matches)
         IN  IF ~SliceOk(line_text, last_end, match_info.start)
             THEN [panic |-> TRUE, out |-> <<>>]
             ELSE PrintLoop(line_text, Tail(matches), match_info.end,
                      out \o Slice(line_text, last_end, match_info.start) \o match_info.text)

print_line_match(line_match) == PrintLoop(line_match.line_text, line_match.matches, 0, <<>>)

LineMatchNew(line_number, line_text, matches) ==
    [line_number |-> line_number, line_text |-> line_text, matches |-> matches]

\* ------------------------------------------------------------------------
\* find_in_text (matcher.rs) and the per-file search (searcher.rs)
\* ------------------------------------------------------------------------
\* str::lines: the pieces ended by a line feed, with one "\r" before the
\* line feed stripped, then the rest of the text if it is not empty
StripCr(l) == IF l # <<>> /\ l[Len(l)] = "\r" THEN SubSeq(l, 1, Len(l) - 1) ELSE l

RECURSIVE SplitLines(_, _, _, _)
SplitLines(s, k, cur, acc) ==
    IF k > Len(s) THEN (IF cur = <<>> THEN acc ELSE Append(acc, cur))
    ELSE IF s[k] = "\n" THEN SplitLines(s, k + 1, <<>>, Append(acc, StripCr(cur)))
    ELSE SplitLines(s, k + 1, Append(cur, s[k]), acc)

StrLines(s) == SplitLines(s, 1, <<>>, <<>>)

\* find_in_text: `.enumerate().filter_map(..)` over the lines; line_num is
\* 0-based, the LineMatch carries line_num + 1
RECURSIVE FindInLines(_, _, _, _), KeepLine(_, _, _, _, _)
FindInLines(lines, line_num, m, acc) ==
    IF line_num >= Len(lines) THEN [panic |-> FALSE, line_matches |-> acc]
    ELSE KeepLine(find_matches(m, lines[line_num + 1]), lines, line_num, m, acc)

KeepLine(matches, lines, line_num, m, acc) ==
    IF matches.panic THEN [panic |-> TRUE, line_matches |-> <<>>]
    ELSE IF matches.matches # <<>>
    THEN FindInLines(lines, line_num + 1, m,
             Append(acc, LineMatchNew(line_num + 1, lines[line_num + 1], matches.matches)))
    ELSE FindInLines(lines, line_num + 1, m, acc)

find_in_text(text, m) == FindInLines(StrLines(text), 0, m, <<>>)

RECURSIVE SumMatches(_)
SumMatches(line_matches) ==
    IF line_matches = <<>> THEN 0
    ELSE Len(Head(line_matches).matches) + SumMatches(Tail(line_matches))

\* FileMatch::new
FileMatchNew(path, line_matches) ==
    [path |-> path, line_matches |-> line_matches,
     total_matches |-> SumMatches(line_matches)]

has_matches(file_match) == file_match.total_matches > 0

NoFileMatch == FileMatchNew(<<>>, <<>>)

\* The Ok arm of search_file: the FileMatch of what find_in_text returned
FileResult(path, r) ==
    [ok |-> TRUE, panic |-> r.panic, file_match |-> FileMatchNew(path, r.line_matches)]

\* SearchEngine::search_file on the file system fs: Err when the content
\* cannot be read.  No structural option is set in the command lines of
\* the search specification, so the content is searched unfiltered; the
\* structured case is filtered_content below.
search_file(path, fs, m) ==
    IF ~fs[path].readable THEN [ok |-> FALSE, panic |-> FALSE, file_match |-> NoFileMatch]
    ELSE FileResult(path, find_in_text(fs[path].content, m))

\* ------------------------------------------------------------------------
\* Path ordering (std::path::Path::cmp): component by component, each
\* component by its bytes
\* ------------------------------------------------------------------------
ByteVal(b) ==
    CASE b = "-" -> 45 [] b = "." -> 46 [] b = "/" -> 47
      [] b = "a" -> 97 [] b = "b" -> 98 [] b = "s" -> 115 [] b = "x" -> 120
      [] OTHER -> 0

\* -1, 0, 1: lexicographic comparison of two byte strings
RECURSIVE CmpBytes(_, _)
CmpBytes(a, b) ==
    IF a = <<>> THEN (IF b = <<>> THEN 0 ELSE -1)
    ELSE IF b = <<>> THEN 1
    ELSE IF ByteVal(Head(a)) < ByteVal(Head(b)) THEN -1
    ELSE IF ByteVal(Head(a)) > ByteVal(Head(b)) THEN 1
    ELSE CmpBytes(Tail(a), Tail(b))

\* Path::components of a relative path: the names between separators
RECURSIVE SplitPath(_, _, _, _)
SplitPath(p, k, cur, acc) ==
    IF k > Len(p) THEN (IF cur = <<>> THEN acc ELSE Append(acc, cur))
    ELSE IF p[k] = "/"
    THEN SplitPath(p, k + 1, <<>>, IF cur = <<>> THEN acc ELSE Append(acc, cur))
    ELSE SplitPath(p, k + 1, Append(cur, p[k]), acc)

Components(p) == SplitPath(p, 1, <<>>, <<>>)

RECURSIVE CmpComponents(_, _)
CmpComponents(a, b) ==
    IF a = <<>> THEN (IF b = <<>> THEN 0 ELSE -1)
    ELSE IF b = <<>> THEN 1
    ELSE IF CmpBytes(Head(a), Head(b)) # 0 THEN CmpBytes(Head(a), Head(b))
    ELSE CmpComponents(Tail(a), Tail(b))

\* as PathCmp, on the path's string form
PathCmp_AsString(p, q) == CmpBytes(p, q)

\* a.path.cmp(&b.path)
PathCmp(p, q) == CmpComponents(Components(p), Components(q))

\* Vec::sort_by(|a, b| a.path.cmp(&b.path)): a stable sort
RECURSIVE InsertByPath(_, _)
InsertByPath(sorted, x) ==
    IF sorted = <<>> THEN <<x>>
    ELSE IF PathCmp(x.path, sorted[Len(sorted)].path) >= 0 THEN Append(sorted, x)
    ELSE Append(InsertByPath(SubSeq(sorted, 1, Len(sorted) - 1), x), sorted[Len(sorted)])

RECURSIVE SortFrom(_, _, _)
SortFrom(file_matches, k, sorted) ==
    IF k > Len(file_matches) THEN sorted
    ELSE SortFrom(file_matches, k + 1, InsertByPath(sorted, file_matches[k]))

\* as sort_by_path, leaving the list in the order of completion
sort_by_path_Unsorted(file_matches) == file_matches

sort_by_path(file_matches) == SortFrom(file_matches, 1, <<>>)

\* AtomicUsize::fetch_add: the new value of the counter
fetch_add_Store(counter, n) == n

fetch_add(counter, n) == counter + n

\* SearchStats::new (elapsed_time and search_rate are not modelled)
SearchStatsNew(files_searched, files_with_matches, total_matches, total_lines) ==
    [files_searched |-> files_searched, files_with_matches |-> files_with_matches,
     total_matches |-> total_matches, total_lines |-> total_lines]

\* ------------------------------------------------------------------------
\* Inputs of the matcher specification
\* ------------------------------------------------------------------------
MkCli(p, a, o, lit, re, fancy, cs, wb) ==
    [pattern |-> p, and |-> a, or |-> o, literal |-> lit, regex |-> re,
     fancy_regex |-> fancy, case_sensitive |-> cs, word_boundary |-> wb]

\* literal, regex, fancy_regex: each mode alone, none (auto-detect), literal
\* together with regex, regex together with fancy_regex, and all three
ModeFlags == {<<TRUE, FALSE, FALSE>>, <<FALSE, TRUE, FALSE>>, <<FALSE, FALSE, TRUE>>,
              <<FALSE, FALSE, FALSE>>, <<TRUE, TRUE, FALSE>>, <<FALSE, TRUE, TRUE>>,
              <<TRUE, TRUE, TRUE>>}

PlainPatterns ==
    {<<"a">>, <<"A">>, EAcute, <<"a", "a">>, <<"a">> \o EAcute, EAcute \o <<"a">>,
     <<"-", "a">>, <<>>}

MetaPatterns ==
    {<<"a", "*">>, <<"a", "|">> \o EAcute, <<".">>, <<"(", "a">>, <<"*", "a">>,
     <<"a", ".">>, <<"(", "a", "|", "-", ")", "*">>}

AndLists == {<<<<"a">>>>, <<EAcute>>, <<<<"a">>, EAcute>>, <<<<"-">>, <<"a", "*">>>>,
             <<<<"(", "a">>>>}

OrLists == {<<EAcute>>, <<<<"a">>, <<"-">>>>}

SingleClis ==
    {MkCli(Some(p), <<>>, <<>>, f[1], f[2], f[3], cs, wb) :
        p \in PlainPatterns \cup MetaPatterns, f \in ModeFlags,
        cs \in BOOLEAN, wb \in BOOLEAN}

AndClis ==
    {MkCli(p, a, <<>>, lit, FALSE, FALSE, FALSE, FALSE) :
        p \in {None, Some(<<"a">>), Some(EAcute)}, a \in AndLists, lit \in BOOLEAN}

OrClis ==
    {MkCli(p, <<>>, o, f[1], f[2], f[3], cs, FALSE) :
        p \in {None, Some(<<"a">>)}, o \in OrLists, f \in ModeFlags, cs \in BOOLEAN}

NoPatternCli == MkCli(None, <<>>, <<>>, FALSE, FALSE, FALSE, FALSE, FALSE)

MatchClis == SingleClis \cup AndClis \cup OrClis \cup {NoPatternCli}

Lines == CharStrings(MaxTextChars)

NotBuilt == Err("NotBuilt")

NotRun == [panic |-> FALSE, matches |-> <<>>]

NotPrinted == [panic |-> FALSE, out |-> <<>>]

VARIABLES
    pc,              \* position of the main thread
    cli,             \* the parsed command line (the fields the matcher reads)
    matcher,         \* the result of PatternMatcher::new
    line,            \* the line handed to find_matches
    found,           \* the result of find_matches
    printed,         \* the result of print_line_match
    fsys,            \* the file system: path -> [readable, content]
    file_paths,      \* search: the candidate paths collected by the walk
    touched,         \* the paths whose content has been read
    worker,          \* search: each pool thread's position and FileMatch
    files_searched,  \* search: AtomicUsize
    total_matches,   \* search: AtomicUsize
    total_lines,     \* search: AtomicUsize
    results,         \* search: the Vec<FileMatch> inside the Mutex
    lock,            \* search: the thread holding the Mutex, 0 when free
    ret,             \* what search returned
    replacement,     \* replace: the Replacer's template
    new_line,        \* replace: the line being rewritten
    offset,          \* replace: the running byte offset (i32)
    match_index,     \* replace: position of `for match_info in &matches`
    all_results,     \* batch: the ReplacementResults computed for the run
    result_index,    \* batch: position of the loop over the results
    confirmed_results, \* batch: the list the interactive pass builds
    answers,         \* batch: the responses read so far, with the result asked
    previews,        \* batch: the previews printed so far (file paths)
    written,         \* batch: the files written so far, in order
    readonly,        \* batch: the paths fs::write fails on
    batch_ret,       \* batch: what batch_replace_files returned
    eof,             \* batch: stdin has reached the end of input
    searched_path,   \* search_file: the path of the file
    filtered,        \* search_file: `filtered_content`
    file_ret,        \* search_file: what it returned
    parsed           \* CodeParser: start_line of the functions parse_javascript found

matchVars == <<line, found, printed>>

replaceVars == <<replacement, new_line, offset, match_index>>

searchVars == <<file_paths, touched, worker, files_searched, total_matches,
                total_lines, results, lock, ret>>

batchVars == <<all_results, result_index, confirmed_results, answers, previews,
               written, readonly, batch_ret, eof>>

filterVars == <<searched_path, filtered, file_ret, parsed>>

vars == <<pc, cli, matcher, fsys, matchVars, replaceVars, searchVars, batchVars,
         filterVars>>

NumWorkers == 2

Workers == 1..NumWorkers

Idle == [pc |-> "idle", file_match |-> NoFileMatch]

NotReturned == [ok |-> FALSE, file_matches |-> <<>>, stats |-> SearchStatsNew(0, 0, 0, 0)]

\* The state of the search before SearchEngine::search is called
SearchAtRest ==
    /\ file_paths = {}
    /\ touched = {}
    /\ worker = [w \in Workers |-> Idle]
    /\ files_searched = 0
    /\ total_matches = 0
    /\ total_lines = 0
    /\ results = <<>>
    /\ lock = 0
    /\ ret = NotReturned

MatchAtRest ==
    /\ line = <<>>
    /\ found = NotRun
    /\ printed = NotPrinted

ReplaceAtRest ==
    /\ replacement = <<>>
    /\ new_line = <<>>
    /\ offset = 0
    /\ match_index = 0

BatchNotReturned == [ok |-> FALSE, results |-> <<>>]

\* The state of the batch before batch_replace_files is called
BatchAtRest ==
    /\ all_results = <<>>
    /\ result_index = 0
    /\ confirmed_results = <<>>
    /\ answers = <<>>
    /\ previews = <<>>
    /\ written = <<>>
    /\ readonly = {}
    /\ batch_ret = BatchNotReturned
    /\ eof = FALSE

NotSearched == [ok |-> FALSE, panic |-> FALSE, file_match |-> NoFileMatch]

\* The state before search_file is called on a file of its own
FilterAtRest ==
    /\ searched_path = <<>>
    /\ filtered = <<>>
    /\ file_ret = NotSearched
    /\ parsed = <<>>

\* ------------------------------------------------------------------------
\* Matcher specification: build the matcher, find the matches of one line,
\* render the line
\* ------------------------------------------------------------------------
MatchInit ==
    /\ pc = "start"
    /\ cli \in MatchClis
    /\ line \in Lines
    /\ matcher = NotBuilt
    /\ found = NotRun
    /\ printed = NotPrinted
    /\ fsys = <<>>
    /\ SearchAtRest
    /\ ReplaceAtRest
    /\ BatchAtRest
    /\ FilterAtRest

New ==
    /\ pc = "start"
    /\ matcher' = PatternMatcherNew(cli)
    /\ pc' = IF matcher'.ok THEN "built" ELSE "failed"
    /\ UNCHANGED <<batchVars, filterVars, cli, fsys, matchVars, replaceVars, searchVars>>

FindMatches ==
    /\ pc = "built"
    /\ found' = find_matches(matcher.m, line)
    /\ pc' = IF found'.panic THEN "panicked" ELSE "found"
    /\ UNCHANGED <<batchVars, filterVars, cli, matcher, fsys, line, printed, searchVars, replaceVars>>

\* find_in_text keeps the line iff it has a match; the renderer prints it
PrintLineMatch ==
    /\ pc = "found"
    /\ found.matches # <<>>
    /\ printed' = print_line_match(LineMatchNew(1, line, found.matches))
    /\ pc' = IF printed'.panic THEN "panicked" ELSE "printed"
    /\ UNCHANGED <<batchVars, filterVars, cli, matcher, fsys, line, found, searchVars, replaceVars>>

MatchNext == New \/ FindMatches \/ PrintLineMatch

MatchSpec == MatchInit /\ [][MatchNext]_vars

\* ------------------------------------------------------------------------
\* Properties of the matcher
\* ------------------------------------------------------------------------
\* find_matches has been called
Searched == pc \in {"found", "printed", "panicked"}

Range(f) == {f[k] : k \in DOMAIN f}

\* The byte offsets at which the lower-cased pattern occurs in the
\* lower-cased line
Occurrences(P, T) ==
    {i \in 0..Len(T) : i + Len(P) <= Len(T)
                       /\ Slice(ToLower(T), i, i + Len(P)) = ToLower(P)}

Ascending(ms) == \A k \in 1..Len(ms) - 1 : ms[k].start < ms[k + 1].start

\* C1: for a non-empty literal pattern P and a line T, find_matches returns,
\* in ascending start order, exactly one Match for every byte offset i with
\* lowercase(T)[i .. i+len(P)] = lowercase(P), overlapping occurrences
\* included, and no other Match.
C1_LiteralFindsEveryOccurrence ==
    (Searched /\ matcher.m.kind = "Literal" /\ matcher.m.pattern # <<>>)
    => /\ ~found.panic
       /\ Ascending(found.matches)
       /\ {m.start : m \in Range(found.matches)} = Occurrences(matcher.m.pattern, line)
       /\ \A m \in Range(found.matches) :
              /\ m.end = m.start + Len(matcher.m.pattern)
              /\ m.text = Slice(line, m.start, m.end)

\* The sub-patterns of an AND composite in the order the claim gives them:
\* the primary pattern when there is one, then the AND patterns
SubPatterns == cli.pattern \o cli.and

\* is_match of the matcher built from sub-pattern k alone is true
SubIsMatch(k) ==
    LET r == FindSingle(create_single_matcher(SubPatterns[k], cli).m, line)
    IN  ~r.panic /\ r.matches # <<>>

\* C2: for an AND composite, is_match(line) is true iff every sub-pattern
\* matches somewhere in the line; when it is true find_matches returns
\* exactly the matches of the first sub-pattern (the primary pattern when
\* given, otherwise the first AND pattern); when it is false it returns none.
C2_AndComposite ==
    (Searched /\ matcher.m.kind = "Multiple")
    => /\ (~found.panic /\ found.matches # <<>>)
              <=> (\A k \in 1..Len(SubPatterns) : SubIsMatch(k))
       /\ (~found.panic /\ found.matches # <<>>)
              => found.matches
                   = FindSingle(create_single_matcher(SubPatterns[1], cli).m, line).matches

C2_Witness ==
    /\ pc = "found"
    /\ matcher.m.kind = "Multiple"
    /\ Len(matcher.m.matchers) >= 2
    /\ found.matches # <<>>
    /\ matcher.m.matchers[1] # matcher.m.matchers[2]

\* The patterns of an OR command line: the primary pattern when there is
\* one, then the OR patterns
OrPatterns == cli.pattern \o cli.or

\* is_match of the matcher built from OR pattern k alone is true
AloneIsMatch(k) ==
    /\ create_single_matcher(OrPatterns[k], cli).ok
    /\ ~FindSingle(create_single_matcher(OrPatterns[k], cli).m, line).panic
    /\ FindSingle(create_single_matcher(OrPatterns[k], cli).m, line).matches # <<>>

\* C20: with OR patterns and no AND pattern, in every matching mode, the
\* matcher built from the joined pattern "(p|o1|..)" matches a line iff the
\* primary pattern or one of the OR patterns, built alone under the same
\* flags, matches it.
C20_OrIsAnyAlone ==
    (Searched /\ cli.and = <<>> /\ cli.or # <<>>)
    => ((~found.panic /\ found.matches # <<>>)
            <=> \E k \in 1..Len(OrPatterns) : AloneIsMatch(k))

\* C3 as stated: every Match returned by find_matches, for any pattern
\* variant and any line, has 0 <= start < end <= length of the line and
\* text = line[start:end].
C3_Original_StartBeforeEnd ==
    (Searched /\ ~found.panic)
    => \A m \in Range(found.matches) :
           /\ 0 <= m.start /\ m.start < m.end /\ m.end <= Len(line)
           /\ m.text = Slice(line, m.start, m.end)

\* C3 amended: every Match returned by find_matches has
\* 0 <= start <= end <= length of the line, both offsets on character
\* boundaries, and text = line[start:end] (start = end is an empty match of
\* a regex).
C3_MatchWithinLine ==
    (Searched /\ ~found.panic)
    => \A m \in Range(found.matches) :
           /\ SliceOk(line, m.start, m.end)
           /\ m.text = Slice(line, m.start, m.end)

C3_Witness ==
    /\ pc = "found"
    /\ \E m \in Range(found.matches) : m.start = m.end
    /\ \E m \in Range(found.matches) : m.start < m.end /\ m.start > 0

\* C4: in every LineMatch the matches are ordered by start offset and do
\* not overlap: each match starts at or after the end of the one before it.
C4_OrderedNonOverlapping ==
    (Searched /\ ~found.panic)
    => \A k \in 1..Len(found.matches) - 1 :
           /\ found.matches[k].start <= found.matches[k + 1].start
           /\ found.matches[k].end <= found.matches[k + 1].start

\* ------------------------------------------------------------------------
\* Search specification: run() of main.rs up to the return of
\* SearchEngine::search, with the rayon pool's threads interleaved
\* ------------------------------------------------------------------------
\* The walk starts at "." (walker.rs:11); no further path is given
PathSX == <<".", "/", "s", "/", "x">>

PathSdashX == <<".", "/", "s", "-", "x">>

PathA == <<".", "/", "a">>

Paths == {PathSX, PathSdashX, PathA}

File(exists, readable, content) ==
    [exists |-> exists, readable |-> readable, content |-> content]

Contents ==
    {<<"-">>, <<"a", "\n">>, <<"a", "a", "\n", "-", "\n", "A">>, EAcute}

Files ==
    {File(FALSE, FALSE, <<>>), File(TRUE, FALSE, <<>>)}
        \cup {File(TRUE, TRUE, c) : c \in Contents}

SearchClis ==
    {MkCli(Some(<<"a">>), <<>>, <<>>, FALSE, FALSE, FALSE, FALSE, FALSE),
     MkCli(Some(<<"a", "*">>), <<>>, <<>>, FALSE, TRUE, FALSE, FALSE, FALSE),
     MkCli(Some(EAcute), <<>>, <<>>, TRUE, FALSE, FALSE, FALSE, FALSE),
     MkCli(Some(<<"(", "a">>), <<>>, <<>>, FALSE, FALSE, FALSE, FALSE, FALSE),
     NoPatternCli}

SearchInit ==
    /\ pc = "start"
    /\ cli \in SearchClis
    /\ matcher = NotBuilt
    /\ fsys \in [Paths -> Files]
    /\ MatchAtRest
    /\ SearchAtRest
    /\ ReplaceAtRest
    /\ BatchAtRest
    /\ FilterAtRest

\* run (main.rs): without any pattern the process exits before the engine
\* is created
RunCheckPattern ==
    /\ pc = "start"
    /\ pc' = IF cli.pattern = None /\ cli.and = <<>> /\ cli.or = <<>>
             THEN "exited" ELSE "engine_new"
    /\ UNCHANGED <<batchVars, filterVars, cli, matcher, fsys, matchVars, replaceVars, searchVars>>

\* as SearchEngineNew, with the matcher's construction error ignored
SearchEngineNew_Unchecked(c) == Ok([kind |-> "Literal", pattern |-> <<"a">>])

\* SearchEngine::new: `PatternMatcher::new(&cli)?`; FileWalker::new only
\* configures the walk
SearchEngineNew(c) == PatternMatcherNew(c)

EngineNew ==
    /\ pc = "engine_new"
    /\ matcher' = SearchEngineNew(cli)
    /\ pc' = IF matcher'.ok THEN "search" ELSE "failed"
    /\ UNCHANGED <<batchVars, filterVars, cli, fsys, matchVars, replaceVars, searchVars>>

\* search: `self.walker.walk()` collects the candidate paths
Walk ==
    /\ pc = "search"
    /\ file_paths' = {p \in Paths : fsys[p].exists}
    /\ pc' = "par_iter"
    /\ UNCHANGED <<batchVars, filterVars, cli, matcher, fsys, matchVars, replaceVars, touched, worker, files_searched,
                   total_matches, total_lines, results, lock, ret>>

\* as AfterSearchFile, counting a file whose read failed
AfterSearchFile_CountErr(r) ==
    IF r.panic THEN [pc |-> "panicked", file_match |-> NoFileMatch]
    ELSE [pc |-> "inc_files", file_match |-> r.file_match]

\* `if let Ok(file_match) = self.search_file(path)`: an Err skips the file
AfterSearchFile(r) ==
    IF r.panic THEN [pc |-> "panicked", file_match |-> NoFileMatch]
    ELSE IF r.ok THEN [pc |-> "inc_files", file_match |-> r.file_match]
    ELSE Idle

\* A pool thread takes one of the remaining paths and runs search_file
StartFile(w, p) ==
    /\ pc = "par_iter"
    /\ worker[w].pc = "idle"
    /\ p \in file_paths \ touched
    /\ touched' = touched \cup {p}
    /\ worker' = [worker EXCEPT ![w] = AfterSearchFile(search_file(p, fsys, matcher.m))]
    /\ UNCHANGED <<pc, batchVars, filterVars, cli, matcher, fsys, matchVars, replaceVars, file_paths, files_searched,
                   total_matches, total_lines, results, lock, ret>>

IncFiles(w) ==
    /\ worker[w].pc = "inc_files"
    /\ files_searched' = fetch_add(files_searched, 1)
    /\ worker' = [worker EXCEPT ![w] =
                     IF has_matches(worker[w].file_match)
                     THEN [worker[w] EXCEPT !.pc = "inc_matches"] ELSE Idle]
    /\ UNCHANGED <<pc, batchVars, filterVars, cli, matcher, fsys, matchVars, replaceVars, file_paths, touched,
                   total_matches, total_lines, results, lock, ret>>

IncMatches(w) ==
    /\ worker[w].pc = "inc_matches"
    /\ total_matches' = fetch_add(total_matches, worker[w].file_match.total_matches)
    /\ worker' = [worker EXCEPT ![w].pc = "inc_lines"]
    /\ UNCHANGED <<pc, batchVars, filterVars, cli, matcher, fsys, matchVars, replaceVars, file_paths, touched,
                   files_searched, total_lines, results, lock, ret>>

IncLines(w) ==
    /\ worker[w].pc = "inc_lines"
    /\ total_lines' = fetch_add(total_lines, Len(worker[w].file_match.line_matches))
    /\ worker' = [worker EXCEPT ![w].pc = "lock"]
    /\ UNCHANGED <<pc, batchVars, filterVars, cli, matcher, fsys, matchVars, replaceVars, file_paths, touched,
                   files_searched, total_matches, results, lock, ret>>

\* results.lock()
Lock(w) ==
    /\ worker[w].pc = "lock"
    /\ lock = 0
    /\ lock' = w
    /\ worker' = [worker EXCEPT ![w].pc = "push"]
    /\ UNCHANGED <<pc, batchVars, filterVars, cli, matcher, fsys, matchVars, replaceVars, file_paths, touched,
                   files_searched, total_matches, total_lines, results, ret>>

\* results.push(file_match); the guard is dropped at the end of the block
Push(w) ==
    /\ worker[w].pc = "push"
    /\ lock = w
    /\ results' = Append(results, worker[w].file_match)
    /\ lock' = 0
    /\ worker' = [worker EXCEPT ![w] = Idle]
    /\ UNCHANGED <<pc, batchVars, filterVars, cli, matcher, fsys, matchVars, replaceVars, file_paths, touched,
                   files_searched, total_matches, total_lines, ret>>

\* What search returns from the sorted list and the loaded counters
SearchOk(file_matches, searched, matches, lines) ==
    [ok |-> TRUE, file_matches |-> file_matches,
     stats |-> SearchStatsNew(searched, Len(file_matches), matches, lines)]

\* for_each has returned: the counters are loaded, the list is sorted
SearchReturn ==
    /\ pc = "par_iter"
    /\ touched = file_paths
    /\ \A w \in Workers : worker[w].pc = "idle"
    /\ ret' = SearchOk(sort_by_path(results), files_searched, total_matches, total_lines)
    /\ pc' = "done"
    /\ UNCHANGED <<batchVars, filterVars, cli, matcher, fsys, matchVars, replaceVars, file_paths, touched, worker,
                   files_searched, total_matches, total_lines, results, lock>>

\* A panic in a pool thread is resumed in the caller of for_each once the
\* other threads have finished the file they are on
SearchPanic ==
    /\ pc = "par_iter"
    /\ \E w \in Workers : worker[w].pc = "panicked"
    /\ \A w \in Workers : worker[w].pc \in {"idle", "panicked"}
    /\ pc' = "panicked"
    /\ UNCHANGED <<batchVars, filterVars, cli, matcher, fsys, matchVars, replaceVars, searchVars>>

SearchNext ==
    \/ RunCheckPattern
    \/ EngineNew
    \/ Walk
    \/ \E w \in Workers : \E p \in Paths : StartFile(w, p)
    \/ \E w \in Workers : IncFiles(w)
    \/ \E w \in Workers : IncMatches(w)
    \/ \E w \in Workers : IncLines(w)
    \/ \E w \in Workers : Lock(w)
    \/ \E w \in Workers : Push(w)
    \/ SearchReturn
    \/ SearchPanic

SearchSpec == SearchInit /\ [][SearchNext]_vars

\* ------------------------------------------------------------------------
\* Properties of the search
\* ------------------------------------------------------------------------
Candidates(fs) == {p \in Paths : fs[p].exists}

Unreadable(fs) == {p \in Candidates(fs) : ~fs[p].readable}

Readable(fs) == {p \in Candidates(fs) : fs[p].readable}

\* Path::cmp spelled out: a sorts strictly before b
PathBefore(a, b) == CmpComponents(Components(a), Components(b)) < 0

\* The FileMatch of every readable candidate that has a match
ExpectedMatches(fs, m) ==
    {fm \in {search_file(p, fs, m).file_match : p \in Readable(fs)} : fm.total_matches > 0}

\* The one arrangement of the set S of FileMatch in ascending path order
InPathOrder(S) ==
    CHOOSE s \in [1..Cardinality(S) -> S] :
        \A j, k \in 1..Cardinality(S) : j < k => PathBefore(s[j].path, s[k].path)

RECURSIVE TotalMatchesOf(_)
TotalMatchesOf(fms) ==
    IF fms = <<>> THEN 0 ELSE Head(fms).total_matches + TotalMatchesOf(Tail(fms))

RECURSIVE TotalLinesOf(_)
TotalLinesOf(fms) ==
    IF fms = <<>> THEN 0 ELSE Len(Head(fms).line_matches) + TotalLinesOf(Tail(fms))

\* What a search of the file system fs with matcher m returns, computed
\* file by file without threads
ExpectedOf(fms, fs) ==
    [ok |-> TRUE, file_matches |-> fms,
     stats |-> [files_searched |-> Cardinality(Readable(fs)),
                files_with_matches |-> Len(fms),
                total_matches |-> TotalMatchesOf(fms),
                total_lines |-> TotalLinesOf(fms)]]

Expected(fs, m) == ExpectedOf(InPathOrder(ExpectedMatches(fs, m)), fs)

\* Some readable candidate makes find_matches panic
ExpectedPanic(fs, m) == \E p \in Readable(fs) : search_file(p, fs, m).panic

\* C5: for fixed candidate files and contents, search returns the same
\* FileMatch list (same files, same order, same matches) and the same
\* counters for every interleaving and completion order of the workers: what
\* it returns is the function Expected of the files and the matcher, and
\* whether it returns at all does not depend on the interleaving either.
C5_SameForEveryInterleaving ==
    /\ pc = "done" => (ret = Expected(fsys, matcher.m) /\ ~ExpectedPanic(fsys, matcher.m))
    /\ pc = "panicked" => ExpectedPanic(fsys, matcher.m)

\* search has returned a list that is not in the order of completion
C5_Witness ==
    /\ pc = "done"
    /\ Len(ret.file_matches) >= 2
    /\ results # ret.file_matches

\* C6: when search returns no update is lost: every returned FileMatch has
\* total_matches > 0, files_with_matches is the number of returned
\* FileMatch, total_matches the sum of their total_matches, total_lines the
\* sum of their line_matches counts, and files_searched the number of
\* candidates that were read successfully.
C6_NoLostUpdate ==
    pc = "done"
    => /\ \A k \in 1..Len(ret.file_matches) : ret.file_matches[k].total_matches > 0
       /\ ret.stats.files_with_matches = Len(ret.file_matches)
       /\ ret.stats.total_matches = TotalMatchesOf(ret.file_matches)
       /\ ret.stats.total_lines = TotalLinesOf(ret.file_matches)
       /\ ret.stats.files_searched = Cardinality(Readable(fsys))

\* search has returned two files with matches and has read a third without
C6_Witness ==
    /\ pc = "done"
    /\ Len(ret.file_matches) = 2
    /\ ret.stats.files_searched = 3
    /\ ret.stats.total_matches > ret.stats.total_lines

\* The file system without the candidates that cannot be read
WithoutUnreadable(fs) ==
    [p \in Paths |-> IF p \in Unreadable(fs) THEN File(FALSE, FALSE, <<>>) ELSE fs[p]]

\* C7: a candidate whose content cannot be read is skipped: search returns
\* Ok, the file is absent from the results and not counted in
\* files_searched, and the FileMatch values and counters are those of the
\* search in which the unreadable file is not a candidate.  The unreadable
\* file does not make the search fail where it would not without it.
C7_UnreadableSkipped ==
    (Unreadable(fsys) # {})
    => /\ pc = "done"
           => /\ ret.ok
              /\ \A k \in 1..Len(ret.file_matches) :
                     ret.file_matches[k].path \notin Unreadable(fsys)
              /\ ret.stats.files_searched
                     = Cardinality(Candidates(fsys)) - Cardinality(Unreadable(fsys))
              /\ ret = Expected(WithoutUnreadable(fsys), matcher.m)
       /\ pc = "panicked" => ExpectedPanic(WithoutUnreadable(fsys), matcher.m)

\* search has returned a match after a worker met an unreadable candidate
C7_Witness ==
    /\ pc = "done"
    /\ Unreadable(fsys) # {}
    /\ Unreadable(fsys) \subseteq touched
    /\ ret.file_matches # <<>>

\* C8 as stated: the returned list is in ascending lexicographic order of
\* the paths' string forms, compared character by character.
C8_Original_StringOrder ==
    pc = "done"
    => \A j, k \in 1..Len(ret.file_matches) :
           j < k => CmpBytes(ret.file_matches[j].path, ret.file_matches[k].path) < 0

\* C8 amended: the returned list is in ascending order of the paths as
\* Path::cmp compares them, component by component and each component byte
\* by byte.
C8_PathOrder ==
    pc = "done"
    => \A j, k \in 1..Len(ret.file_matches) :
           j < k => PathBefore(ret.file_matches[j].path, ret.file_matches[k].path)

\* search has returned two paths whose component order and string order
\* disagree
C8_Witness ==
    /\ pc = "done"
    /\ \E j, k \in 1..Len(ret.file_matches) :
           /\ j < k
           /\ CmpBytes(ret.file_matches[j].path, ret.file_matches[k].path) > 0

\* C9: a pattern the matcher cannot be built from makes the run fail at
\* matcher construction, before any candidate is enumerated or read; once
\* the matcher is built, what search returns is never an error.
C9_FailsBeforeAnyFile ==
    /\ ~PatternMatcherNew(cli).ok
           => /\ pc \in {"start", "exited", "engine_new", "failed"}
              /\ file_paths = {} /\ touched = {} /\ files_searched = 0
    /\ pc = "failed" => (~matcher.ok /\ ret = NotReturned)
    /\ pc = "done" => (matcher.ok /\ ret.ok)

\* the run has failed at construction with candidate files present
C9_Witness ==
    /\ pc = "failed"
    /\ cli.pattern # None
    /\ Candidates(fsys) # {}

\* ------------------------------------------------------------------------
\* Replacement specification: the body of replace_in_file's loop for one
\* line (replacer.rs)
\* ------------------------------------------------------------------------
\* str::replace: every non-overlapping occurrence of `from`, left to right
RECURSIVE StrReplaceAt(_, _, _, _)
StrReplaceAt(s, from, to, pos) ==
    IF pos = -1 THEN s
    ELSE Slice(s, 0, pos) \o to
             \o StrReplaceAt(Slice(s, pos + Len(from), Len(s)), from, to,
                             Find(Slice(s, pos + Len(from), Len(s)), from))

StrReplace(s, from, to) == StrReplaceAt(s, from, to, Find(s, from))

\* Replacer::process_replacement: "$0", then "${0}", stand for the match
process_replacement(template, matched_text) ==
    StrReplace(StrReplace(template, <<"$", "0">>, matched_text),
               <<"$", "{", "0", "}">>, matched_text)

\* String::replace_range(start..end, ..) does not panic.  start and end
\* arrive as `(i32) as usize`: a negative i32 becomes a usize above 2^63,
\* beyond the length of any string.
ReplaceRangeOk(s, start, end) == SliceOk(s, start, end)

replace_range(s, start, end, with) ==
    Slice(s, 0, start) \o with \o Slice(s, end, Len(s))

ReplaceClis ==
    {MkCli(Some(<<"a">>), <<>>, <<>>, FALSE, FALSE, FALSE, FALSE, FALSE),
     MkCli(Some(<<"a", "a">>), <<>>, <<>>, TRUE, FALSE, FALSE, FALSE, FALSE),
     MkCli(Some(<<"-", "a">>), <<>>, <<>>, TRUE, FALSE, FALSE, TRUE, FALSE),
     MkCli(Some(<<"a", "*">>), <<>>, <<>>, FALSE, TRUE, FALSE, FALSE, FALSE),
     MkCli(Some(<<"a", "|">> \o EAcute), <<>>, <<>>, FALSE, FALSE, TRUE, FALSE, FALSE),
     MkCli(Some(EAcute), <<>>, <<>>, TRUE, FALSE, FALSE, FALSE, FALSE),
     MkCli(Some(<<"(", "a">>), <<>>, <<>>, FALSE, TRUE, FALSE, FALSE, FALSE)}

Replacements ==
    {<<>>, <<"x">>, <<"$", "0">>, <<"x", "$", "{", "0", "}">>, <<"$", "0", "$", "0">>}

ReplaceInit ==
    /\ pc = "start"
    /\ cli \in ReplaceClis
    /\ line \in Lines
    /\ replacement \in Replacements
    /\ matcher = NotBuilt
    /\ found = NotRun
    /\ printed = NotPrinted
    /\ fsys = <<>>
    /\ SearchAtRest
    /\ BatchAtRest
    /\ FilterAtRest
    /\ new_line = <<>>
    /\ offset = 0
    /\ match_index = 0

\* `let matches = self.pattern_matcher.find_matches(line)` and the branch on
\* matches.is_empty(): a line without a match is pushed as it is
ReplaceFindMatches ==
    /\ pc = "built"
    /\ found' = find_matches(matcher.m, line)
    /\ pc' = IF found'.panic THEN "panicked"
             ELSE IF found'.matches # <<>> THEN "replacing" ELSE "kept"
    /\ new_line' = IF found'.panic THEN new_line ELSE line
    /\ offset' = 0
    /\ match_index' = 1
    /\ UNCHANGED <<batchVars, filterVars, cli, matcher, fsys, line, printed, searchVars, replacement>>

\* One pass of `for match_info in &matches`, with start and end already
\* computed and the template expanded
ReplaceOne(start, end, replacement_text, matched_text) ==
    IF ReplaceRangeOk(new_line, start, end)
    THEN /\ new_line' = replace_range(new_line, start, end, replacement_text)
         /\ offset' = offset + Len(replacement_text) - Len(matched_text)
         /\ match_index' = match_index + 1
         /\ pc' = pc
    ELSE /\ pc' = "replace_panicked"
         /\ UNCHANGED <<new_line, offset, match_index>>

ReplaceMatch ==
    /\ pc = "replacing"
    /\ match_index <= Len(found.matches)
    /\ ReplaceOne(found.matches[match_index].start + offset,
                  found.matches[match_index].end + offset,
                  process_replacement(replacement, found.matches[match_index].text),
                  found.matches[match_index].text)
    /\ UNCHANGED <<batchVars, filterVars, cli, matcher, fsys, matchVars, searchVars, replacement>>

\* The loop is over: new_lines.push(new_line)
ReplaceLineDone ==
    /\ pc = "replacing"
    /\ match_index > Len(found.matches)
    /\ pc' = "replaced"
    /\ UNCHANGED <<batchVars, filterVars, cli, matcher, fsys, matchVars, searchVars, replaceVars>>

ReplaceNext == New \/ ReplaceFindMatches \/ ReplaceMatch \/ ReplaceLineDone

ReplaceSpec == ReplaceInit /\ [][ReplaceNext]_vars

\* The line with each span of matches[k..] replaced by the expanded
\* template and the bytes between the spans copied, from last_end on
RECURSIVE ExpectedLine(_, _, _, _, _)
ExpectedLine(text, matches, template, k, last_end) ==
    IF k > Len(matches) THEN Slice(text, last_end, Len(text))
    ELSE (IF last_end <= matches[k].start
          THEN Slice(text, last_end, matches[k].start) ELSE <<>>)
         \o process_replacement(template, matches[k].text)
         \o ExpectedLine(text, matches, template, k + 1, matches[k].end)

\* C10: for every line with at least one match and every list of matches
\* find_matches returns on it, the replacement of the line never panics or
\* indexes outside the line, and it produces the line in which each matched
\* span is replaced, left to right, by the expanded template while every
\* byte outside the spans is unchanged.
C10_ReplacesEachSpan ==
    /\ pc # "replace_panicked"
    /\ pc = "replaced" => new_line = ExpectedLine(line, found.matches, replacement, 1, 0)

\* ------------------------------------------------------------------------
\* replace_in_file on a whole file, as a function of the file system
\* ------------------------------------------------------------------------
\* `for match_info in &matches` on one line: k is the position in matches,
\* off the running offset
RECURSIVE ReplaceLoop(_, _, _, _, _)
ReplaceLoop(cur, matches, template, k, off) ==
    IF k > Len(matches) THEN [panic |-> FALSE, line |-> cur]
    ELSE IF ~ReplaceRangeOk(cur, matches[k].start + off, matches[k].end + off)
    THEN [panic |-> TRUE, line |-> cur]
    ELSE ReplaceLoop(replace_range(cur, matches[k].start + off, matches[k].end + off,
                                   process_replacement(template, matches[k].text)),
                     matches, template, k + 1,
                     off + Len(process_replacement(template, matches[k].text))
                         - Len(matches[k].text))

NoLines == [panic |-> FALSE, new_lines |-> <<>>, replacements_made |-> 0,
            lines_affected |-> <<>>]

PanickedLines == [panic |-> TRUE, new_lines |-> <<>>, replacements_made |-> 0,
                  lines_affected |-> <<>>]

\* `for (line_num, line) in lines.iter().enumerate()`: k = line_index
RECURSIVE ReplaceLines(_, _, _, _, _), ReplaceLineStep(_, _, _, _, _, _),
          PushLine(_, _, _, _, _, _, _)
ReplaceLines(lines, k, m, template, acc) ==
    IF k > Len(lines) THEN acc
    ELSE ReplaceLineStep(find_matches(m, lines[k]), lines, k, m, template, acc)

ReplaceLineStep(matches, lines, k, m, template, acc) ==
    IF matches.panic THEN PanickedLines
    ELSE IF matches.matches = <<>>
    THEN ReplaceLines(lines, k + 1, m, template,
                      [acc EXCEPT !.new_lines = Append(@, lines[k])])
    ELSE PushLine(ReplaceLoop(lines[k], matches.matches, template, 1, 0),
                  Len(matches.matches), lines, k, m, template, acc)

PushLine(r, n, lines, k, m, template, acc) ==
    IF r.panic THEN PanickedLines
    ELSE ReplaceLines(lines, k + 1, m, template,
                      [panic |-> FALSE,
                       new_lines |-> Append(acc.new_lines, r.line),
                       replacements_made |-> acc.replacements_made + n,
                       lines_affected |-> Append(acc.lines_affected, k)])

\* Path::display().to_string(), on paths that are valid UTF-8
Display(path) == path

ReplacementResult(file_path, original_content, new_content, replacements_made, lines_affected) ==
    [file_path |-> file_path, original_content |-> original_content,
     new_content |-> new_content, replacements_made |-> replacements_made,
     lines_affected |-> lines_affected]

NoResult == ReplacementResult(<<>>, <<>>, <<>>, 0, <<>>)

\* What replace_in_file returns: Err, a panic, Ok(None) or Ok(Some(result))
ReplaceErr == [ok |-> FALSE, panic |-> FALSE, some |-> FALSE, result |-> NoResult]

ReplaceReturn(path, original_content, r) ==
    IF r.panic THEN [ok |-> FALSE, panic |-> TRUE, some |-> FALSE, result |-> NoResult]
    ELSE IF r.replacements_made > 0
    THEN [ok |-> TRUE, panic |-> FALSE, some |-> TRUE,
          result |-> ReplacementResult(Display(path), original_content,
                                       Join(r.new_lines, <<"\n">>),
                                       r.replacements_made, r.lines_affected)]
    ELSE [ok |-> TRUE, panic |-> FALSE, some |-> FALSE, result |-> NoResult]

\* as replace_in_file, producing a result for every file that could be read
replace_in_file_AlwaysSome(path, fs, m, template) ==
    IF ~(fs[path].exists /\ fs[path].readable) THEN ReplaceErr
    ELSE [ok |-> TRUE, panic |-> FALSE, some |-> TRUE,
          result |-> ReplacementResult(Display(path), fs[path].content,
                                       fs[path].content, 0, <<>>)]

\* Replacer::replace_in_file
replace_in_file(path, fs, m, template) ==
    IF ~(fs[path].exists /\ fs[path].readable) THEN ReplaceErr
    ELSE ReplaceReturn(path, fs[path].content,
                       ReplaceLines(StrLines(fs[path].content), 1, m, template, NoLines))

\* Replacer::preview_replacement: the file, the count and, for each
\* affected line present in both contents, the line before and after
RECURSIVE PreviewLines(_, _, _)
PreviewLines(lines_affected, original_lines, new_lines) ==
    IF lines_affected = <<>> THEN <<>>
    ELSE (IF Head(lines_affected) <= Len(original_lines)
             /\ Head(lines_affected) <= Len(new_lines)
          THEN << <<Head(lines_affected), original_lines[Head(lines_affected)],
                    new_lines[Head(lines_affected)]>> >>
          ELSE <<>>)
         \o PreviewLines(Tail(lines_affected), original_lines, new_lines)

preview_replacement(result) ==
    [file |-> result.file_path, replacements |-> result.replacements_made,
     lines |-> PreviewLines(result.lines_affected, StrLines(result.original_content),
                            StrLines(result.new_content))]

\* ------------------------------------------------------------------------
\* Batch specification: batch_replace_files (replacer.rs) on the result of
\* a search, with the responses typed at the prompt
\* ------------------------------------------------------------------------
MaxInvalid == 1

\* The order in which the walk yields the candidates
WalkOrder == <<PathA, PathSdashX, PathSX>>

\* search with a pool of one thread: the candidates one after the other
RECURSIVE SearchEach(_, _, _, _), SearchStep(_, _, _, _, _)
SearchEach(paths, fs, m, acc) ==
    IF paths = <<>> THEN acc
    ELSE IF ~fs[Head(paths)].exists THEN SearchEach(Tail(paths), fs, m, acc)
    ELSE SearchStep(search_file(Head(paths), fs, m), Tail(paths), fs, m, acc)

SearchStep(r, rest, fs, m, acc) ==
    IF r.panic THEN [acc EXCEPT !.panic = TRUE]
    ELSE IF ~r.ok THEN SearchEach(rest, fs, m, acc)
    ELSE IF ~has_matches(r.file_match)
    THEN SearchEach(rest, fs, m, [acc EXCEPT !.files_searched = fetch_add(@, 1)])
    ELSE SearchEach(rest, fs, m,
             [panic |-> FALSE,
              files_searched |-> fetch_add(acc.files_searched, 1),
              total_matches |-> fetch_add(acc.total_matches, r.file_match.total_matches),
              total_lines |-> fetch_add(acc.total_lines, Len(r.file_match.line_matches)),
              results |-> Append(acc.results, r.file_match)])

SearchOneThreadReturn(acc) ==
    SearchOk(sort_by_path(acc.results), acc.files_searched, acc.total_matches,
             acc.total_lines)

SearchOneThread(fs, m) ==
    SearchOneThreadReturn(SearchEach(WalkOrder, fs, m,
        [panic |-> FALSE, files_searched |-> 0, total_matches |-> 0,
         total_lines |-> 0, results |-> <<>>]))

\* cli with the three flags of the batch policy
WithMode(c, interactive, preview, write) ==
    c @@ [interactive |-> interactive, preview |-> preview, write |-> write]

BatchClis ==
    {WithMode(MkCli(Some(<<"a">>), <<>>, <<>>, FALSE, FALSE, FALSE, FALSE, FALSE), i, p, w) :
        i \in BOOLEAN, p \in BOOLEAN, w \in BOOLEAN}

BatchFiles ==
    {File(FALSE, FALSE, <<>>), File(TRUE, TRUE, <<"-">>),
     File(TRUE, TRUE, <<"a", "\n", "-">>),
     File(TRUE, TRUE, <<"-", "\n", "A", "-", "a", "\n">>),
     File(TRUE, TRUE, <<"a", "\n", "\n">>)}

\* What read_line leaves in `input`
Responses == {"y\n", "n\n", "a\n", "q\n", " YES\n", "x\n"}

\* input.trim().to_lowercase()
TrimLower(input) ==
    CASE input = "y\n" -> "y" [] input = "n\n" -> "n" [] input = "a\n" -> "a"
      [] input = "q\n" -> "q" [] input = " YES\n" -> "yes" [] input = "x\n" -> "x"
      [] OTHER -> ""

\* The file system as it was when the search ran: PathA may have been
\* edited between the search and the replacement
AtSearchTime(fs) == {fs} \cup {[fs EXCEPT ![PathA] = f] : f \in BatchFiles}

BatchInit ==
    /\ pc = "batch_start"
    /\ cli \in BatchClis
    /\ matcher = PatternMatcherNew(cli)
    /\ fsys \in [Paths -> BatchFiles]
    /\ ret \in {SearchOneThread(fs, matcher.m) : fs \in AtSearchTime(fsys)}
    /\ replacement = <<"x">>
    /\ readonly \in {{}, {PathSX}}
    /\ MatchAtRest
    /\ file_paths = {} /\ touched = {} /\ worker = [w \in Workers |-> Idle]
    /\ files_searched = 0 /\ total_matches = 0 /\ total_lines = 0
    /\ results = <<>> /\ lock = 0
    /\ new_line = <<>> /\ offset = 0 /\ match_index = 0
    /\ all_results = <<>> /\ result_index = 1 /\ confirmed_results = <<>>
    /\ answers = <<>> /\ previews = <<>> /\ written = <<>>
    /\ batch_ret = BatchNotReturned
    /\ eof = FALSE
    /\ FilterAtRest

batchFrame == <<cli, matcher, matchVars, searchVars, replaceVars, readonly, filterVars, eof>>

BatchOk(list) == [ok |-> TRUE, results |-> list]

\* The Err the `?` operator returns from batch_replace_files
BatchErr(kind) == [ok |-> FALSE, results |-> <<>>, err |-> kind]

\* as Computed, with a file that cannot be read left out of the results
Computed_SkipsUnreadable(r) ==
    IF r.panic
    THEN /\ pc' = "panicked"
         /\ UNCHANGED <<all_results, result_index, batch_ret>>
    ELSE /\ pc' = pc
         /\ all_results' = IF r.ok /\ r.some THEN Append(all_results, r.result)
                           ELSE all_results
         /\ result_index' = result_index + 1
         /\ UNCHANGED batch_ret

\* `if let Some(result) = replacer.replace_in_file(file_match)?`
Computed(r) ==
    IF r.panic
    THEN /\ pc' = "panicked"
         /\ UNCHANGED <<all_results, result_index, batch_ret>>
    ELSE IF ~r.ok
    THEN /\ pc' = "batch_failed"
         /\ batch_ret' = BatchErr("Io")
         /\ UNCHANGED <<all_results, result_index>>
    ELSE /\ pc' = pc
         /\ all_results' = IF r.some THEN Append(all_results, r.result) ELSE all_results
         /\ result_index' = result_index + 1
         /\ UNCHANGED batch_ret

Compute ==
    /\ pc = "batch_start"
    /\ result_index <= Len(ret.file_matches)
    /\ Computed(replace_in_file(ret.file_matches[result_index].path, fsys, matcher.m,
                                replacement))
    /\ UNCHANGED <<batchFrame, fsys, confirmed_results, answers, previews, written>>

\* The if / else-if chain on cli.interactive, cli.preview, cli.write
ChooseMode ==
    /\ pc = "batch_start"
    /\ result_index > Len(ret.file_matches)
    /\ pc' = IF cli.interactive THEN "interactive"
             ELSE IF cli.preview THEN "preview"
             ELSE IF cli.write THEN "write_all"
             ELSE "preview"
    /\ result_index' = 1
    /\ UNCHANGED <<batchFrame, fsys, all_results, confirmed_results, answers, previews,
                   written, batch_ret>>

\* interactive_replacement: `println!("{}", self.preview_replacement(result))`
\* for the next result, or the end of the `for result in results` loop
AskNext ==
    /\ pc = "interactive"
    /\ IF result_index <= Len(all_results)
       THEN /\ previews' = Append(previews, preview_replacement(all_results[result_index]))
            /\ pc' = "prompt"
       ELSE /\ pc' = "interactive_done"
            /\ UNCHANGED previews
    /\ UNCHANGED <<batchFrame, fsys, all_results, result_index, confirmed_results,
                   answers, written, batch_ret>>

\* `&results[confirmed_results.len()..]`, taken after the push of the
\* result answered "a"
Remaining(rs, confirmed) == SubSeq(rs, Len(confirmed) + 1, Len(rs))

\* as NextPc, with "q" going on to the next prompt
NextPc_QuitGoesOn(input) ==
    IF input \in {"a", "all"} THEN "interactive_done"
    ELSE IF input \in {"y", "yes", "n", "no", "q", "quit"} THEN "interactive"
    ELSE "prompt"

\* Where the match on the input leaves the pass: `break` goes to the next
\* result, `return` ends the pass, `continue` prompts again
NextPc(input) ==
    IF input \in {"a", "all", "q", "quit"} THEN "interactive_done"
    ELSE IF input \in {"y", "yes", "n", "no"} THEN "interactive"
    ELSE "prompt"

\* The prompt, read_line and the match on the trimmed lower-case input
Answered(input) ==
    CASE input \in {"y", "yes"} ->
            /\ confirmed_results' = Append(confirmed_results, all_results[result_index])
            /\ result_index' = result_index + 1
            /\ pc' = NextPc(input)
      [] input \in {"n", "no"} ->
            /\ result_index' = result_index + 1
            /\ pc' = NextPc(input)
            /\ UNCHANGED confirmed_results
      [] input \in {"a", "all"} ->
            /\ confirmed_results' =
                   Append(confirmed_results, all_results[result_index])
                       \o Remaining(all_results,
                                    Append(confirmed_results, all_results[result_index]))
            /\ pc' = NextPc(input)
            /\ UNCHANGED result_index
      [] input \in {"q", "quit"} ->
            /\ pc' = NextPc(input)
            /\ UNCHANGED <<confirmed_results, result_index>>
      [] OTHER ->
            /\ Cardinality({k \in 1..Len(answers) :
                               TrimLower(answers[k][2])
                                   \notin {"y", "yes", "n", "no", "a", "all", "q", "quit"}})
                   < MaxInvalid
            /\ pc' = NextPc(input)
            /\ UNCHANGED <<confirmed_results, result_index>>

\* `print!("Apply this replacement? [y/n/a/q]: ")` and the flush, at the top
\* of every turn of the `loop`
Prompt ==
    /\ pc = "prompt"
    /\ pc' = "read_line"
    /\ UNCHANGED <<batchFrame, fsys, all_results, result_index, confirmed_results,
                   answers, previews, written, batch_ret>>

\* read_line gave a line of the stream
Respond(input) ==
    /\ pc = "read_line"
    /\ ~eof
    /\ answers' = Append(answers, <<result_index, input>>)
    /\ Answered(TrimLower(input))
    /\ UNCHANGED <<batchFrame, fsys, all_results, previews, written, batch_ret>>

\* read_line at the end of the stream: Ok(0) and `input` stays empty, the
\* match takes the `_` arm and `continue` goes back to the prompt
ReadEof ==
    /\ pc = "read_line"
    /\ eof' = TRUE
    /\ pc' = NextPc(TrimLower(""))
    /\ UNCHANGED <<cli, matcher, matchVars, searchVars, replaceVars, readonly,
                   filterVars, fsys, all_results, result_index, confirmed_results,
                   answers, previews, written, batch_ret>>

\* `if cli.write { for result in &confirmed_results { write .. } }`
AfterPassPc(write) == IF write THEN "write_confirmed" ELSE "returning_confirmed"

\* After the pass: `if cli.write { for result in &confirmed_results .. }`
AfterInteractive ==
    /\ pc = "interactive_done"
    /\ pc' = AfterPassPc(cli.write)
    /\ result_index' = 1
    /\ UNCHANGED <<batchFrame, fsys, all_results, confirmed_results, answers, previews,
                   written, batch_ret>>

\* as write_replacement, writing the content the result was computed from
write_replacement_Original(fs, result) ==
    [fs EXCEPT ![result.file_path] = File(TRUE, TRUE, result.original_content)]

\* Replacer::write_replacement: fs::write(&result.file_path, &result.new_content)
write_replacement(fs, result) ==
    [fs EXCEPT ![result.file_path] = File(TRUE, TRUE, result.new_content)]

\* as WriteNext, with a write that fails passed over and the loop going on
WriteNext_SkipsFailure(list, done) ==
    IF result_index > Len(list)
    THEN /\ pc' = done
         /\ UNCHANGED <<fsys, written, result_index, batch_ret>>
    ELSE /\ fsys' = IF list[result_index].file_path \in readonly THEN fsys
                    ELSE write_replacement(fsys, list[result_index])
         /\ written' = IF list[result_index].file_path \in readonly THEN written
                       ELSE Append(written, list[result_index].file_path)
         /\ result_index' = result_index + 1
         /\ pc' = pc
         /\ UNCHANGED batch_ret

\* One pass of `for result in list { replacer.write_replacement(result)?; .. }`:
\* fs::write fails on a file that cannot be opened for writing and `?`
\* returns the error
WriteNext(list, done) ==
    IF result_index > Len(list)
    THEN /\ pc' = done
         /\ UNCHANGED <<fsys, written, result_index, batch_ret>>
    ELSE IF list[result_index].file_path \in readonly
    THEN /\ pc' = "batch_failed"
         /\ batch_ret' = BatchErr("Io")
         /\ UNCHANGED <<fsys, written, result_index>>
    ELSE /\ fsys' = write_replacement(fsys, list[result_index])
         /\ written' = Append(written, list[result_index].file_path)
         /\ result_index' = result_index + 1
         /\ pc' = pc
         /\ UNCHANGED batch_ret

WriteConfirmed ==
    /\ pc = "write_confirmed"
    /\ WriteNext(confirmed_results, "returning_confirmed")
    /\ UNCHANGED <<batchFrame, all_results, confirmed_results, answers, previews>>

WriteAll ==
    /\ pc = "write_all"
    /\ WriteNext(all_results, "returning_all")
    /\ UNCHANGED <<batchFrame, all_results, confirmed_results, answers, previews>>

\* `for result in &all_results { println!("{}", replacer.preview_replacement(result)) }`
Preview ==
    /\ pc = "preview"
    /\ IF result_index <= Len(all_results)
       THEN /\ previews' = Append(previews, preview_replacement(all_results[result_index]))
            /\ result_index' = result_index + 1
            /\ pc' = pc
       ELSE /\ pc' = "returning_all"
            /\ UNCHANGED <<previews, result_index>>
    /\ UNCHANGED <<batchFrame, fsys, all_results, confirmed_results, answers, written,
                   batch_ret>>

\* Ok(confirmed_results) / Ok(all_results)
BatchReturn ==
    /\ pc \in {"returning_confirmed", "returning_all"}
    /\ batch_ret' = BatchOk(IF pc = "returning_confirmed" THEN confirmed_results
                            ELSE all_results)
    /\ pc' = "batch_done"
    /\ UNCHANGED <<batchFrame, fsys, all_results, result_index, confirmed_results,
                   answers, previews, written>>

BatchNext ==
    \/ Compute
    \/ ChooseMode
    \/ AskNext
    \/ Prompt
    \/ \E input \in Responses : Respond(input)
    \/ ReadEof
    \/ AfterInteractive
    \/ WriteConfirmed
    \/ WriteAll
    \/ Preview
    \/ BatchReturn

BatchSpec == BatchInit /\ [][BatchNext]_vars

\* ------------------------------------------------------------------------
\* Properties of the batch
\* ------------------------------------------------------------------------
\* Result i was asked and the response, trimmed and lower-cased, is in set
AnswerIs(i, set) ==
    \E k \in 1..Len(answers) : answers[k][1] = i /\ TrimLower(answers[k][2]) \in set

\* Result i is confirmed by the responses: answered y, answered a, or
\* placed after the result answered a
ConfirmedByAnswers(i) ==
    \/ AnswerIs(i, {"y", "yes"})
    \/ \E j \in 1..i : AnswerIs(j, {"a", "all"})

\* The results confirmed by the responses, each once, in the original order
RECURSIVE KeepConfirmed(_)
KeepConfirmed(i) ==
    IF i > Len(all_results) THEN <<>>
    ELSE (IF ConfirmedByAnswers(i) THEN <<all_results[i]>> ELSE <<>>)
         \o KeepConfirmed(i + 1)

\* C11: for every sequence of responses the list returned by the
\* interactive pass contains a result iff it was answered y, or answered a,
\* or comes after the result answered a; a result answered n is never in the
\* list; each result appears at most once and in the original order; a
\* response other than y/n/a/q changes nothing and the result is asked again.
C11_InteractiveList ==
    /\ pc = "interactive_done" => confirmed_results = KeepConfirmed(1)
    /\ (pc \in {"prompt", "read_line"} /\ answers # <<>>
           /\ answers[Len(answers)][1] = result_index)
           => /\ TrimLower(answers[Len(answers)][2])
                     \notin {"y", "yes", "n", "no", "a", "all", "q", "quit"}
              /\ confirmed_results = KeepConfirmed(1)

\* The results before result `stop` that were answered y, in order
RECURSIVE KeepYes(_, _)
KeepYes(i, stop) ==
    IF i >= stop \/ i > Len(all_results) THEN <<>>
    ELSE (IF AnswerIs(i, {"y", "yes"}) THEN <<all_results[i]>> ELSE <<>>)
         \o KeepYes(i + 1, stop)

PathsOf(list) == [k \in 1..Len(list) |-> list[k].file_path]

WrittenPaths == {written[k] : k \in 1..Len(written)}

\* C12: a response q at result i ends the pass at once: it is the last
\* response, no later result is previewed or prompted, the list is exactly
\* the results answered y before i, result i and the later ones are neither
\* in the list nor written, and the confirmed ones are written only under
\* the write flag.
C12_QuitStopsAtOnce ==
    \A i \in 1..Len(all_results) :
        AnswerIs(i, {"q", "quit"}) =>
            /\ answers[Len(answers)][1] = i
            /\ TrimLower(answers[Len(answers)][2]) \in {"q", "quit"}
            /\ pc \notin {"prompt", "read_line", "interactive"}
            /\ Len(previews) = i
            /\ confirmed_results = KeepYes(1, i)
            /\ \A j \in i..Len(all_results) : all_results[j].file_path \notin WrittenPaths
            /\ ~cli.write => written = <<>>
            /\ pc = "batch_done" =>
                   /\ batch_ret = [ok |-> TRUE, results |-> KeepYes(1, i)]
                   /\ cli.write => written = PathsOf(KeepYes(1, i))

\* y then q over two results, with the write flag: the first is returned
\* and written, the second is not
C12_Witness ==
    /\ pc = "batch_done"
    /\ cli.write
    /\ Len(all_results) = 2
    /\ AnswerIs(1, {"y", "yes"})
    /\ AnswerIs(2, {"q", "quit"})
    /\ batch_ret.results = <<all_results[1]>>
    /\ written = <<all_results[1].file_path>>

\* The paths of the results confirmed by the responses
ConfirmedPaths ==
    {all_results[i].file_path : i \in {j \in 1..Len(all_results) : ConfirmedByAnswers(j)}}

\* C13: in interactive mode no file is written while the confirmation pass
\* is running; without the write flag no file is written at all; with the
\* write flag the files written are exactly those of the results confirmed
\* by a y or a response.
C13_WritesConfirmed ==
    cli.interactive =>
        /\ pc \in {"interactive", "prompt", "read_line", "interactive_done"}
               => written = <<>>
        /\ ~cli.write => written = <<>>
        /\ WrittenPaths \subseteq ConfirmedPaths
        /\ (pc = "batch_done" /\ cli.write) => WrittenPaths = ConfirmedPaths

\* The flags select Preview mode: the preview flag, or none of the three
PreviewModeFlags == cli.preview \/ ~(cli.preview \/ cli.interactive \/ cli.write)

\* C14: in Preview mode (preview flag set, or none of preview / interactive
\* / write set) and for every combination of the other two flags, the
\* batch writes no file, prompts for nothing, and when it returns it has
\* rendered the preview of every computed result and returns them all.
C14_PreviewMode ==
    PreviewModeFlags =>
        /\ written = <<>>
        /\ pc \notin {"prompt", "read_line"}
        /\ pc = "batch_done" =>
               /\ previews = [k \in 1..Len(all_results) |->
                                 preview_replacement(all_results[k])]
               /\ batch_ret = [ok |-> TRUE, results |-> all_results]

\* The flags select unconditional write
WriteModeFlags == cli.write /\ ~cli.interactive /\ ~cli.preview

\* C15: in unconditional write mode nothing is prompted or previewed, the
\* files written so far are those of the first results of the list, in list
\* order, each written file holds exactly its result's new_content, and when
\* the batch returns every computed result has been written.
C15_WriteAll ==
    WriteModeFlags =>
        /\ answers = <<>> /\ previews = <<>>
        /\ pc \notin {"interactive", "prompt", "read_line", "preview"}
        /\ Len(written) <= Len(all_results)
        /\ \A k \in 1..Len(written) :
               /\ written[k] = all_results[k].file_path
               /\ fsys[written[k]].exists
               /\ fsys[written[k]].content = all_results[k].new_content
        /\ pc \in {"returning_all", "batch_done"} => Len(written) = Len(all_results)
        /\ pc = "batch_done" => batch_ret = [ok |-> TRUE, results |-> all_results]

\* Two results written in list order, the batch returned
C15_Witness ==
    /\ WriteModeFlags
    /\ pc = "batch_done"
    /\ Len(written) >= 2
    /\ \A k \in 1..Len(written) :
           fsys[written[k]].content # all_results[k].original_content

\* Some line of the content has a match of the matcher
SomeLineMatches(content, m) ==
    \E k \in 1..Len(StrLines(content)) : find_matches(m, StrLines(content)[k]).matches # <<>>

\* C16: a call of replace_in_file on a readable file leaves every file as
\* it is, adds no result when no line of the file has a match, and adds one
\* result, for that file and with at least one replacement, when some line
\* has a match.
C16_NoneIffNoMatch ==
    [][(pc = "batch_start" /\ result_index <= Len(ret.file_matches))
          => /\ fsys' = fsys
             /\ written' = <<>>
             /\ pc' = "batch_start" =>
                    IF SomeLineMatches(fsys[ret.file_matches[result_index].path].content,
                                       matcher.m)
                    THEN /\ Len(all_results') = Len(all_results) + 1
                         /\ SubSeq(all_results', 1, Len(all_results)) = all_results
                         /\ all_results'[Len(all_results')].file_path
                                = ret.file_matches[result_index].path
                         /\ all_results'[Len(all_results')].replacements_made > 0
                    ELSE all_results' = all_results]_vars

\* Every file of the search was processed; one that has no match any more
\* gave None, another gave a result; no file has been written
C16_Witness ==
    /\ pc = "batch_start"
    /\ result_index = Len(ret.file_matches) + 1
    /\ all_results # <<>>
    /\ \E k \in 1..Len(ret.file_matches) :
           /\ fsys[ret.file_matches[k].path].exists
           /\ ~SomeLineMatches(fsys[ret.file_matches[k].path].content, matcher.m)
           /\ \A j \in 1..Len(all_results) :
                  all_results[j].file_path # ret.file_matches[k].path

\* ------------------------------------------------------------------------
\* Structured search (searcher.rs): the line filters of search_file
\* ------------------------------------------------------------------------
MaxFileLines == 4

Whitespace == {" ", "\t", "\r", "\n"}

RECURSIVE TrimStart(_), TrimEnd(_)
TrimStart(s) == IF s # <<>> /\ Head(s) \in Whitespace THEN TrimStart(Tail(s)) ELSE s

TrimEnd(s) ==
    IF s # <<>> /\ s[Len(s)] \in Whitespace THEN TrimEnd(SubSeq(s, 1, Len(s) - 1)) ELSE s

\* str::trim
Trim(s) == TrimEnd(TrimStart(s))

\* str::starts_with, str::ends_with, str::contains
StartsWith(s, p) == Len(p) <= Len(s) /\ SubSeq(s, 1, Len(p)) = p

EndsWith(s, p) == Len(p) <= Len(s) /\ SubSeq(s, Len(s) - Len(p) + 1, Len(s)) = p

Contains(s, p) == Find(s, p) >= 0

\* `line.matches(c).count()`
CountChar(s, c) == Cardinality({k \in 1..Len(s) : s[k] = c})

RECURSIVE LastIndexOf(_, _, _)
LastIndexOf(s, c, k) ==
    IF k = 0 THEN 0 ELSE IF s[k] = c THEN k ELSE LastIndexOf(s, c, k - 1)

FileName(path) == SubSeq(path, LastIndexOf(path, "/", Len(path)) + 1, Len(path))

\* Path::extension: what follows the last dot of the file name, None when
\* the name has no dot or only a leading one
ExtensionOf(name, dot) ==
    IF dot <= 1 THEN None ELSE Some(SubSeq(name, dot + 1, Len(name)))

Extension(path) == ExtensionOf(FileName(path), LastIndexOf(FileName(path), ".", Len(FileName(path))))

IsCommentLine(trimmed, ext) ==
    IF ext \in {Some(<<"r", "s">>), Some(<<"j", "s">>), Some(<<"t", "s">>), Some(<<"g", "o">>), Some(<<"j", "a", "v", "a">>), Some(<<"c">>), Some(<<"c", "p", "p">>)}
    THEN \/ StartsWith(trimmed, <<"/", "/">>)
         \/ StartsWith(trimmed, <<"/", "*">>)
         \/ EndsWith(trimmed, <<"*", "/">>)
    ELSE IF ext \in {Some(<<"p", "y">>), Some(<<"r", "b">>), Some(<<"s", "h">>)}
    THEN StartsWith(trimmed, <<"#">>)
    ELSE StartsWith(trimmed, <<"#">>) \/ StartsWith(trimmed, <<"/", "/">>)

\* SearchEngine::is_comment_line
is_comment_line(l, path) == IsCommentLine(Trim(l), Extension(path))

IsImportLine(trimmed, ext) ==
    IF ext = Some(<<"r", "s">>)
    THEN StartsWith(trimmed, <<"u", "s", "e", " ">>) \/ StartsWith(trimmed, <<"e", "x", "t", "e", "r", "n", " ", "c", "r", "a", "t", "e">>)
    ELSE IF ext \in {Some(<<"g", "o">>), Some(<<"j", "a", "v", "a">>)}
    THEN StartsWith(trimmed, <<"i", "m", "p", "o", "r", "t", " ">>)
    ELSE IF ext \in {Some(<<"j", "s">>), Some(<<"t", "s">>)}
    THEN \/ StartsWith(trimmed, <<"i", "m", "p", "o", "r", "t", " ">>)
         \/ (StartsWith(trimmed, <<"c", "o", "n", "s", "t", " ">>) /\ Contains(trimmed, <<"r", "e", "q", "u", "i", "r", "e", "(">>))
    ELSE IF ext = Some(<<"p", "y">>)
    THEN StartsWith(trimmed, <<"i", "m", "p", "o", "r", "t", " ">>) \/ StartsWith(trimmed, <<"f", "r", "o", "m", " ">>)
    ELSE Contains(trimmed, <<"i", "m", "p", "o", "r", "t">>) \/ Contains(trimmed, <<"r", "e", "q", "u", "i", "r", "e">>)

\* SearchEngine::is_import_line
is_import_line(l, path) == IsImportLine(Trim(l), Extension(path))

IsFunctionLine(trimmed, ext) ==
    IF ext = Some(<<"r", "s">>)
    THEN StartsWith(trimmed, <<"f", "n", " ">>) \/ Contains(trimmed, <<" ", "f", "n", " ">>)
    ELSE IF ext = Some(<<"g", "o">>)
    THEN StartsWith(trimmed, <<"f", "u", "n", "c", " ">>)
    ELSE IF ext \in {Some(<<"j", "s">>), Some(<<"t", "s">>)}
    THEN \/ StartsWith(trimmed, <<"f", "u", "n", "c", "t", "i", "o", "n", " ">>)
         \/ Contains(trimmed, <<"f", "u", "n", "c", "t", "i", "o", "n", "(">>)
         \/ Contains(trimmed, <<"=", ">", " ">>)
         \/ (Contains(trimmed, <<"(">>) /\ Contains(trimmed, <<"{">>))
    ELSE IF ext = Some(<<"p", "y">>)
    THEN StartsWith(trimmed, <<"d", "e", "f", " ">>)
    ELSE IF ext = Some(<<"j", "a", "v", "a">>)
    THEN /\ \/ Contains(trimmed, <<"p", "u", "b", "l", "i", "c", " ">>)
            \/ Contains(trimmed, <<"p", "r", "i", "v", "a", "t", "e", " ">>)
            \/ Contains(trimmed, <<"p", "r", "o", "t", "e", "c", "t", "e", "d", " ">>)
         /\ Contains(trimmed, <<"(">>)
         /\ Contains(trimmed, <<")">>)
    ELSE Contains(trimmed, <<"f", "u", "n", "c", "t", "i", "o", "n">>) \/ StartsWith(trimmed, <<"d", "e", "f", " ">>)

\* SearchEngine::is_function_line
is_function_line(l, path) == IsFunctionLine(Trim(l), Extension(path))

\* `for j in i..=line_num`: the '{' minus the '}' of lines i..line_num
\* (0-based, both included)
RECURSIVE BraceCount(_, _, _)
BraceCount(lines, i, line_num) ==
    IF i > line_num THEN 0
    ELSE CountChar(lines[i + 1], "{") - CountChar(lines[i + 1], "}")
             + BraceCount(lines, i + 1, line_num)

\* `for i in (0..=line_num).rev()`: the nearest line at or above i that
\* declares a function whose line contains func_name, -1 when there is none
RECURSIVE FunctionAbove(_, _, _, _)
FunctionAbove(i, lines, func_name, path) ==
    IF i < 0 THEN -1
    ELSE IF /\ is_function_line(Trim(lines[i + 1]), path)
            /\ Contains(Trim(lines[i + 1]), func_name)
    THEN i
    ELSE FunctionAbove(i - 1, lines, func_name, path)

InBraces(i, line_num, lines) == i >= 0 /\ BraceCount(lines, i, line_num) > 0

\* as is_in_function, with any declaration of the name above the line
\* taken as the start of the count
is_in_function_AnyDeclaration(line_num, lines, func_name, path) ==
    \E i \in 0..line_num :
        /\ is_function_line(Trim(lines[i + 1]), path)
        /\ Contains(Trim(lines[i + 1]), func_name)
        /\ BraceCount(lines, i, line_num) > 0

\* SearchEngine::is_in_function
is_in_function(line_num, lines, func_name, path) ==
    InBraces(FunctionAbove(line_num, lines, func_name, path), line_num, lines)

RECURSIVE ClassAbove(_, _, _)
ClassAbove(i, lines, class_name) ==
    IF i < 0 THEN -1
    ELSE IF /\ StartsWith(Trim(lines[i + 1]), <<"c", "l", "a", "s", "s", " ">>)
            /\ Contains(Trim(lines[i + 1]), class_name)
    THEN i
    ELSE ClassAbove(i - 1, lines, class_name)

\* SearchEngine::is_in_class
is_in_class(line_num, lines, class_name, path) ==
    InBraces(ClassAbove(line_num, lines, class_name), line_num, lines)

\* Cli::is_structured_search
is_structured_search(c) ==
    \/ c.functions
    \/ c.in_function # None
    \/ c.in_class # None
    \/ c.in_scope # <<>>
    \/ c.imports_only
    \/ c.comments_only

\* `include_line` after the five `if` statements, each of which assigns it
IncludeLine(c, line_num, lines, path) ==
    IF c.in_class # None THEN is_in_class(line_num, lines, c.in_class[1], path)
    ELSE IF c.in_function # None
    THEN is_in_function(line_num, lines, c.in_function[1], path)
    ELSE IF c.functions THEN is_function_line(lines[line_num + 1], path)
    ELSE IF c.imports_only THEN is_import_line(lines[line_num + 1], path)
    ELSE IF c.comments_only THEN is_comment_line(lines[line_num + 1], path)
    ELSE TRUE

\* `for (line_num, line) in lines.iter().enumerate()`: acc is filtered_lines
RECURSIVE FilterLines(_, _, _, _, _)
FilterLines(lines, line_num, c, path, acc) ==
    IF line_num >= Len(lines) THEN acc
    ELSE FilterLines(lines, line_num + 1, c, path,
                     IF IncludeLine(c, line_num, lines, path)
                     THEN Append(acc, lines[line_num + 1]) ELSE acc)

\* SearchEngine::apply_structured_filters
apply_structured_filters(content, path, c) ==
    Join(FilterLines(StrLines(content), 0, c, path, <<>>), <<"\n">>)

\* search_file: `let filtered_content = if self.cli.is_structured_search() ..`
filtered_content(content, path, c) ==
    IF is_structured_search(c) THEN apply_structured_filters(content, path, c)
    ELSE content

\* The structural options of the command line
WithStructure(c, functions, in_function, in_class, in_scope, imports_only, comments_only) ==
    c @@ [functions |-> functions, in_function |-> in_function, in_class |-> in_class,
          in_scope |-> in_scope, imports_only |-> imports_only,
          comments_only |-> comments_only]

FuncName == <<"m", "a", "i", "n">>

ClassName == <<"k">>

FilterClis ==
    {WithStructure(MkCli(Some(<<"a">>), <<>>, <<>>, FALSE, FALSE, FALSE, FALSE, FALSE),
                   f, inf, inc, <<>>, imp, com) :
        f \in BOOLEAN, inf \in {None, Some(FuncName)}, inc \in {None, Some(ClassName)},
        imp \in BOOLEAN, com \in BOOLEAN}
    \cup {WithStructure(MkCli(Some(<<"a">>), <<>>, <<>>, FALSE, FALSE, FALSE, FALSE, FALSE),
                        FALSE, None, None, <<<<"k">>>>, FALSE, FALSE)}

PathMainRs == <<".", "/", "m", ".", "r", "s">>

FilterPaths == {PathMainRs, PathSX}

\* The text of one line as it stands in the file, before its line feed.
\* The last one ends in two carriage returns: followed by a line feed it is
\* the line "a\r" of str::lines
RawLines ==
    {<<"f", "n", " ", "m", "a", "i", "n", "(", ")", " ", "{">>,
     <<"}">>,
     <<"f", "n", " ", "a", "(", ")", " ", "{">>,
     <<"a">>,
     <<"/", "/", " ", "a">>,
     <<"u", "s", "e", " ", "a">>,
     <<"c", "l", "a", "s", "s", " ", "k", " ", "{">>,
     <<"a", "\r", "\r">>}

RECURSIVE RawLineSeqs(_)
RawLineSeqs(n) ==
    IF n = 0 THEN {<<>>}
    ELSE RawLineSeqs(n - 1)
             \cup {Append(s, l) : s \in {t \in RawLineSeqs(n - 1) : Len(t) = n - 1},
                                  l \in RawLines}

FilterContents == {Join(ls, <<"\n">>) : ls \in RawLineSeqs(MaxFileLines)}

FilterInit ==
    /\ pc = "search_file"
    /\ cli \in FilterClis
    /\ matcher = PatternMatcherNew(cli)
    /\ searched_path \in FilterPaths
    /\ fsys \in {[p \in Paths \cup FilterPaths |-> File(p = path, p = path, IF p = path THEN content ELSE <<>>)] :
                     path \in FilterPaths, content \in FilterContents}
    /\ fsys[searched_path].exists
    /\ filtered = <<>>
    /\ file_ret = NotSearched
    /\ parsed = <<>>
    /\ MatchAtRest
    /\ SearchAtRest
    /\ ReplaceAtRest
    /\ BatchAtRest

\* search_file: read_to_string and the structured filters
FilterContent ==
    /\ pc = "search_file"
    /\ filtered' = filtered_content(fsys[searched_path].content, searched_path, cli)
    /\ pc' = "find_in_text"
    /\ UNCHANGED <<cli, matcher, fsys, matchVars, searchVars, replaceVars, batchVars,
                   searched_path, file_ret, parsed>>

\* search_file: find_in_text on the filtered content, Ok(FileMatch::new(..))
FindInFiltered ==
    /\ pc = "find_in_text"
    /\ file_ret' = FileResult(searched_path, find_in_text(filtered, matcher.m))
    /\ pc' = "searched"
    /\ UNCHANGED <<cli, matcher, fsys, matchVars, searchVars, replaceVars, batchVars,
                   searched_path, filtered, parsed>>

FilterNext == FilterContent \/ FindInFiltered

FilterSpec == FilterInit /\ [][FilterNext]_vars

\* ------------------------------------------------------------------------
\* Properties of the structured search
\* ------------------------------------------------------------------------
\* Line line_num (0-based) satisfies every structural predicate that is active
SatisfiesEvery(c, line_num, lines, path) ==
    /\ c.comments_only => is_comment_line(lines[line_num + 1], path)
    /\ c.imports_only => is_import_line(lines[line_num + 1], path)
    /\ c.functions => is_function_line(lines[line_num + 1], path)
    /\ c.in_function # None => is_in_function(line_num, lines, c.in_function[1], path)
    /\ c.in_class # None => is_in_class(line_num, lines, c.in_class[1], path)

RECURSIVE KeepSatisfying(_, _, _, _)
KeepSatisfying(c, line_num, lines, path) ==
    IF line_num >= Len(lines) THEN <<>>
    ELSE (IF SatisfiesEvery(c, line_num, lines, path) THEN <<lines[line_num + 1]>>
          ELSE <<>>)
         \o KeepSatisfying(c, line_num + 1, lines, path)

\* C17: with one or more structural options active, the searchable text
\* is made of exactly the lines of the file that satisfy every active
\* structural predicate, in order.
C17_KeptIffEveryPredicate ==
    (pc \in {"find_in_text", "searched"} /\ is_structured_search(cli))
        => filtered = Join(KeepSatisfying(cli, 0, StrLines(fsys[searched_path].content),
                                          searched_path),
                           <<"\n">>)

\* The lines of the file that the filters retain, as they are in the file
RetainedLines ==
    FilterLines(StrLines(fsys[searched_path].content), 0, cli, searched_path, <<>>)

\* C18: with a structural option active, every reported LineMatch carries
\* as line_number the 1-based position of its line among the retained
\* lines, as line_text that line as it is in the file, and as matches the
\* matches of the pattern in that line.
C18_CompactedNumbers ==
    (pc = "searched" /\ is_structured_search(cli) /\ ~file_ret.panic)
        => \A k \in 1..Len(file_ret.file_match.line_matches) :
               /\ file_ret.file_match.line_matches[k].line_number \in 1..Len(RetainedLines)
               /\ file_ret.file_match.line_matches[k].line_text
                      = RetainedLines[file_ret.file_match.line_matches[k].line_number]
               /\ file_ret.file_match.line_matches[k].matches
                      = find_matches(matcher.m,
                            RetainedLines[file_ret.file_match.line_matches[k].line_number]).matches

\* The running brace count from the declaration at line d has stayed
\* above 0 on every line from d to line_num (0-based)
StaysOpen(lines, d, line_num) ==
    d >= 0 /\ \A j \in d..line_num : BraceCount(lines, d, j) > 0

\* The region of the nearest declaration at or above line_num: inside as
\* long as the count has not returned to 0
InsideRegion(c, line_num, lines, path) ==
    IF c.in_function # None
    THEN StaysOpen(lines, FunctionAbove(line_num, lines, c.in_function[1], path), line_num)
    ELSE StaysOpen(lines, ClassAbove(line_num, lines, c.in_class[1]), line_num)

RECURSIVE KeepInside(_, _, _, _)
KeepInside(c, line_num, lines, path) ==
    IF line_num >= Len(lines) THEN <<>>
    ELSE (IF InsideRegion(c, line_num, lines, path) THEN <<lines[line_num + 1]>>
          ELSE <<>>)
         \o KeepInside(c, line_num + 1, lines, path)

\* in_function or in_class is the only structural option
OnlyScopeOption ==
    /\ (cli.in_function # None) # (cli.in_class # None)
    /\ ~cli.functions /\ ~cli.imports_only /\ ~cli.comments_only

\* C19: with in_function (or in_class) X as the only option, the lines
\* kept are those of the regions of X: from a declaration line of X for as
\* long as the running count of '{' minus '}' stays above 0; the line where
\* the count returns to 0 and the lines after it, up to the next
\* declaration of X, are not kept.
C19_RegionEnds ==
    (pc \in {"find_in_text", "searched"} /\ OnlyScopeOption)
        => filtered = Join(KeepInside(cli, 0, StrLines(fsys[searched_path].content),
                                      searched_path),
                           <<"\n">>)

\* ------------------------------------------------------------------------
\* Properties of the construction of the matcher
\* ------------------------------------------------------------------------
NothingSupplied == cli.pattern = None /\ cli.and = <<>> /\ cli.or = <<>>

\* Every supplied pattern, alone, is accepted by the engine the flags select
EveryPatternAccepted ==
    \A k \in 1..Len(cli.pattern \o cli.and \o cli.or) :
        create_single_matcher((cli.pattern \o cli.and \o cli.or)[k], cli).ok

RegexCharacters ==
    {".", "*", "+", "?", "^", "$", "|", "[", "]", "(", ")", "{", "}", "\\"}

\* The mode the flags and the pattern select
SelectedMode ==
    IF cli.literal THEN "Literal"
    ELSE IF cli.fancy_regex THEN "Fancy"
    ELSE IF cli.regex THEN "Basic"
    ELSE IF \E k \in 1..Len(cli.pattern[1]) : cli.pattern[1][k] \in RegexCharacters
    THEN "Basic"
    ELSE "Literal"

SameLengthReplacement ==
    /\ matcher.ok
    /\ matcher.m.kind = "Literal"
    /\ Len(replacement) = Len(matcher.m.pattern)

\* C23: when every replacement leaves the length of its line unchanged,
\* new_content has as many lines as original_content, whatever the original
\* content is, also when it ends with a newline or with blank lines.
C23_SameLineCount ==
    SameLengthReplacement
        => \A k \in 1..Len(all_results) :
               Len(StrLines(all_results[k].new_content))
                   = Len(StrLines(all_results[k].original_content))

\* The bytes of the original content a match of the pattern covers: the
\* pattern of these runs is one letter, matched in either case
InMatchSpan(content, i) ==
    /\ matcher.ok
    /\ matcher.m.kind = "Literal"
    /\ ToLower(<<content[i]>>) = ToLower(matcher.m.pattern)

\* C26: new_content differs from original_content only inside replaced match
\* spans: lines without a match, line terminators and a trailing newline are
\* carried over byte for byte (stated for replacements as long as the match,
\* where byte positions correspond).
C26_OnlyMatchSpansDiffer ==
    SameLengthReplacement
        => \A k \in 1..Len(all_results) :
               LET o == all_results[k].original_content
                   n == all_results[k].new_content
               IN  /\ Len(n) = Len(o)
                   /\ \A i \in 1..Len(o) : n[i] # o[i] => InMatchSpan(o, i)

\* ------------------------------------------------------------------------
\* Failures of the batch
\* ------------------------------------------------------------------------
\* The list the write loop of the current mode runs over
WriteList == IF pc = "write_confirmed" THEN confirmed_results ELSE all_results

\* The write loop is at a result whose file cannot be written
WriteFails ==
    /\ pc \in {"write_confirmed", "write_all"}
    /\ result_index <= Len(WriteList)
    /\ WriteList[result_index].file_path \in readonly

\* A file written by this run holds the content written to it
WrittenKeepNew ==
    \A k \in 1..Len(written) :
        \E j \in 1..Len(all_results) :
            /\ all_results[j].file_path = written[k]
            /\ fsys[written[k]].content = all_results[j].new_content

\* C27: a write that fails ends batch_replace_files with an error: the
\* error is what the caller gets, the files written before keep their new
\* content, and nothing is written after the failure.
C27_WriteFailureReturned ==
    [][/\ WriteFails => /\ pc' = "batch_failed"
                        /\ batch_ret' = BatchErr("Io")
                        /\ fsys' = fsys /\ written' = written
                        /\ WrittenKeepNew
       /\ pc = "batch_failed" => /\ ~batch_ret.ok /\ batch_ret # BatchNotReturned
                                 /\ UNCHANGED <<pc, fsys, written, batch_ret>>]_vars

C27_Witness ==
    /\ pc = "batch_failed"
    /\ batch_ret = BatchErr("Io")
    /\ written = <<PathA>>
    /\ fsys[PathA].content = all_results[1].new_content
    /\ fsys[PathA].content # all_results[1].original_content
    /\ all_results[result_index].file_path = PathSX
    /\ result_index < Len(all_results)

\* The computation loop is at a file that cannot be read
ComputeFails ==
    /\ pc = "batch_start"
    /\ result_index <= Len(ret.file_matches)
    /\ ~(fsys[ret.file_matches[result_index].path].exists
             /\ fsys[ret.file_matches[result_index].path].readable)

\* C29: a read that fails while the results are computed ends
\* batch_replace_files with the error before anything is previewed, asked or
\* written, in every mode: no file is modified by that batch.
C29_ComputeFailureFirst ==
    [][ComputeFails => /\ pc' = "batch_failed"
                       /\ batch_ret' = BatchErr("Io")
                       /\ previews' = <<>> /\ answers' = <<>> /\ written' = <<>>
                       /\ fsys' = fsys]_vars

C29_Witness ==
    /\ pc = "batch_failed"
    /\ batch_ret = BatchErr("Io")
    /\ ~fsys[PathA].exists
    /\ ret.file_matches[1].path = PathA
    /\ Len(ret.file_matches) = 3
    /\ cli.write /\ ~cli.interactive /\ ~cli.preview
    /\ previews = <<>> /\ answers = <<>> /\ written = <<>>

\* ------------------------------------------------------------------------
\* The interactive pass as a running process
\* ------------------------------------------------------------------------
\* The batch in interactive mode, on files that did not change since the
\* search and can all be written
InteractiveInit ==
    /\ BatchInit
    /\ cli.interactive
    /\ \A p \in Paths : fsys[p].exists /\ fsys[p].content \in {<<"-">>, <<"a", "\n", "-">>}
    /\ ret = SearchOneThread(fsys, matcher.m)
    /\ readonly = {}

InteractiveNext ==
    \/ Compute
    \/ ChooseMode
    \/ AskNext
    \/ Prompt
    \/ \E input \in Responses : Respond(input)
    \/ ReadEof
    \/ AfterInteractive
    \/ WriteConfirmed
    \/ BatchReturn

\* The steps of interactive_replacement
InteractivePass ==
    \/ AskNext
    \/ Prompt
    \/ \E input \in Responses : Respond(input)
    \/ ReadEof

\* The pass keeps running once it is entered, and read_line returns as soon
\* as the stream holds a line or has ended
InteractiveSpec == InteractiveInit /\ [][InteractiveNext]_vars /\ WF_vars(InteractivePass)

\* C28: the interactive confirmation pass terminates for every input
\* stream, also for a stream that ends before every result was answered.
C28_PassTerminates == (pc = "interactive") ~> (pc = "interactive_done")

\* ------------------------------------------------------------------------
\* Properties of is_in_function
\* ------------------------------------------------------------------------
\* The lines at or before line q (counted from 0) that are function
\* declaration lines whose text contains name
DeclarationsUpTo(lines, q, name, path) ==
    {d \in 0..q : /\ is_function_line(Trim(lines[d + 1]), path)
                  /\ Contains(Trim(lines[d + 1]), name)}

\* The occurrences of the byte c on the lines d..q
BraceOccurrences(lines, d, q, c) ==
    UNION {{<<j, k>> : k \in {n \in 1..Len(lines[j + 1]) : lines[j + 1][n] = c}} :
              j \in d..q}

\* '{' minus '}' over every line from d to q inclusive
BraceSum(lines, d, q) ==
    Cardinality(BraceOccurrences(lines, d, q, "{")) - Cardinality(BraceOccurrences(lines, d, q, "}"))

\* The line q is inside the function name, by the nearest declaration
InsideNearest(lines, q, name, path) ==
    /\ DeclarationsUpTo(lines, q, name, path) # {}
    /\ BraceSum(lines,
                CHOOSE d \in DeclarationsUpTo(lines, q, name, path) :
                    \A e \in DeclarationsUpTo(lines, q, name, path) : e <= d,
                q) > 0

RECURSIVE KeepInsideNearest(_, _, _, _)
KeepInsideNearest(lines, q, name, path) ==
    IF q >= Len(lines) THEN <<>>
    ELSE (IF InsideNearest(lines, q, name, path) THEN <<lines[q + 1]>> ELSE <<>>)
         \o KeepInsideNearest(lines, q + 1, name, path)

\* C25: is_in_function(query line, X) is true iff some line at or before
\* the query line is a function declaration line containing X and, for the
\* nearest such line d, '{' minus '}' summed over the lines d..query is
\* above 0; with no such declaration it is false. in_function decides
\* alone which lines are kept when in_class is not given.
C25_NearestDeclarationCount ==
    (pc \in {"find_in_text", "searched"} /\ cli.in_function # None /\ cli.in_class = None)
        => filtered = Join(KeepInsideNearest(StrLines(fsys[searched_path].content), 0,
                                             cli.in_function[1], searched_path),
                           <<"\n">>)

C25_Witness ==
    /\ pc = "searched"
    /\ cli.in_function = Some(FuncName) /\ cli.in_class = None
    /\ searched_path = PathMainRs
    /\ StrLines(fsys[searched_path].content)
           = << <<"f", "n", " ", "m", "a", "i", "n", "(", ")", " ", "{">>,
                <<"f", "n", " ", "m", "a", "i", "n", "(", ")", " ", "{">>,
                <<"}">>, <<"a">> >>
    /\ filtered = Join(<< <<"f", "n", " ", "m", "a", "i", "n", "(", ")", " ", "{">>,
                          <<"f", "n", " ", "m", "a", "i", "n", "(", ")", " ", "{">> >>,
                       <<"\n">>)
    /\ Len(file_ret.file_match.line_matches) = 2

\* ------------------------------------------------------------------------
\* search_file with --in-function, on files of braces and declarations
\* ------------------------------------------------------------------------
\* The sequences of at most n lines of the set S
RECURSIVE LineSeqsOf(_, _)
LineSeqsOf(S, n) ==
    IF n = 0 THEN {<<>>}
    ELSE LineSeqsOf(S, n - 1)
             \cup {Append(t, l) : t \in {u \in LineSeqsOf(S, n - 1) : Len(u) = n - 1}, l \in S}

ScopeLines ==
    {<<"f", "n", " ", "m", "a", "i", "n", "(", ")", " ", "{">>,
     <<"f", "n", " ", "a", "(", ")", " ", "{">>,
     <<"a", " ", "{">>,
     <<"}">>,
     <<"a">>}

ScopeClis == {c \in FilterClis : c.in_function # None /\ c.in_class = None}

ScopeInit ==
    /\ pc = "search_file"
    /\ cli \in ScopeClis
    /\ matcher = PatternMatcherNew(cli)
    /\ searched_path \in FilterPaths
    /\ fsys \in {[p \in Paths \cup FilterPaths |-> File(p = path, p = path, IF p = path THEN Join(ls, <<"\n">>) ELSE <<>>)] :
                     path \in FilterPaths, ls \in LineSeqsOf(ScopeLines, MaxFileLines)}
    /\ fsys[searched_path].exists
    /\ filtered = <<>>
    /\ file_ret = NotSearched
    /\ parsed = <<>>
    /\ MatchAtRest
    /\ SearchAtRest
    /\ ReplaceAtRest
    /\ BatchAtRest

ScopeSpec == ScopeInit /\ [][FilterNext]_vars

\* ------------------------------------------------------------------------
\* One file through the run: search_file, then batch_replace_files; and
\* through CodeParser
\* ------------------------------------------------------------------------
\* parse_javascript: the condition under `// Parse functions`
IsJsFunctionLine(trimmed) ==
    \/ StartsWith(trimmed, <<"f", "u", "n", "c", "t", "i", "o", "n", " ">>)
    \/ Contains(trimmed, <<"f", "u", "n", "c", "t", "i", "o", "n", "(">>)
    \/ Contains(trimmed, <<"=", ">">>)
    \/ /\ Contains(trimmed, <<"(">>)
       /\ Contains(trimmed, <<"{">>)
       /\ ~StartsWith(trimmed, <<"i", "f">>)
       /\ ~StartsWith(trimmed, <<"f", "o", "r">>)

\* parse_javascript: the start_line of every FunctionInfo pushed, in order
\* (extract_js_function returns Some for every line it is given)
RECURSIVE ParseJsFunctions(_, _)
ParseJsFunctions(lines, line_num) ==
    IF line_num >= Len(lines) THEN <<>>
    ELSE (IF IsJsFunctionLine(Trim(lines[line_num + 1])) THEN <<line_num + 1>> ELSE <<>>)
         \o ParseJsFunctions(lines, line_num + 1)

parse_javascript(content) == ParseJsFunctions(StrLines(content), 0)

PathMainJs == <<".", "/", "m", ".", "j", "s">>

RunPaths == {PathMainRs, PathMainJs}

RunLines ==
    {<<"a">>,
     <<"/", "/", " ", "a">>,
     <<"i", "f", " ", "(", "a", ")", " ", "{">>,
     <<"f", "o", "r", " ", "(", "a", ")", " ", "{">>,
     <<"f", "u", "n", "c", "t", "i", "o", "n", " ", "a", "(", ")", " ", "{">>}

RunClis == {c \in FilterClis : c.in_function = None /\ c.in_class = None /\ c.in_scope = <<>>}

RunInit ==
    /\ pc = "search_file"
    /\ cli \in RunClis
    /\ matcher = PatternMatcherNew(cli)
    /\ searched_path \in RunPaths
    /\ fsys \in {[p \in Paths \cup RunPaths |-> File(p = path, p = path, IF p = path THEN Join(ls, <<"\n">>) ELSE <<>>)] :
                     path \in RunPaths, ls \in LineSeqsOf(RunLines, MaxFileLines)}
    /\ fsys[searched_path].exists
    /\ filtered = <<>>
    /\ file_ret = NotSearched
    /\ parsed = <<>>
    /\ replacement = <<"x">>
    /\ new_line = <<>> /\ offset = 0 /\ match_index = 0
    /\ MatchAtRest
    /\ SearchAtRest
    /\ BatchAtRest

\* main.rs: `let (file_matches, stats) = engine.search()?`, the file is in
\* the list when it has matches, and batch_replace_files is entered
SearchOfFileReturn ==
    /\ pc = "searched"
    /\ ret' = SearchOk(IF has_matches(file_ret.file_match) THEN <<file_ret.file_match>>
                       ELSE <<>>,
                       1, file_ret.file_match.total_matches,
                       Len(file_ret.file_match.line_matches))
    /\ result_index' = 1
    /\ pc' = "batch_start"
    /\ UNCHANGED <<cli, matcher, fsys, matchVars, replaceVars, filterVars, file_paths,
                   touched, worker, files_searched, total_matches, total_lines, results,
                   lock, all_results, confirmed_results, answers, previews, written,
                   readonly, batch_ret, eof>>

\* CodeParser::parse on the same file, for the extensions of parse_javascript
Parse ==
    /\ pc = "search_file"
    /\ Extension(searched_path) \in {Some(<<"j", "s">>), Some(<<"t", "s">>)}
    /\ parsed' = parse_javascript(fsys[searched_path].content)
    /\ pc' = "parsed"
    /\ UNCHANGED <<cli, matcher, fsys, matchVars, searchVars, replaceVars, batchVars,
                   searched_path, filtered, file_ret>>

RunNext ==
    \/ FilterContent
    \/ FindInFiltered
    \/ SearchOfFileReturn
    \/ Compute
    \/ Parse

RunSpec == RunInit /\ [][RunNext]_vars

\* The lines of the file the filters let through, by their number in the
\* file; every line when the search is not structured
KeptLineNumbers(lines, c, path) ==
    SelectSeq([i \in 1..Len(lines) |-> i],
              LAMBDA i : ~is_structured_search(c) \/ IncludeLine(c, i - 1, lines, path))

\* The lines of the file the search reported a match on
ReportedLineNumbers ==
    {KeptLineNumbers(StrLines(fsys[searched_path].content), cli, searched_path)[
         file_ret.file_match.line_matches[k].line_number] :
         k \in 1..Len(file_ret.file_match.line_matches)}

\* C24: the lines replace_in_file changes in a file are exactly the lines
\* the search reported as matches of that file, also under a structural
\* filter: a line the filter excluded is never modified.
C24_ChangesOnlyReported ==
    all_results # <<>> => Range(all_results[1].lines_affected) = ReportedLineNumbers

\* The line starts with a control-flow keyword
ControlFlowLine(l) ==
    StartsWith(Trim(l), <<"i", "f">>) \/ StartsWith(Trim(l), <<"f", "o", "r">>)

\* C30: in a js/ts file a line starting with if or for is not classified as
\* a function declaration line even when it contains both '(' and '{':
\* the functions filter of the search keeps no such line, and the parser
\* records no function on such a line.
C30_ControlFlowExcluded ==
    /\ (/\ pc \notin {"search_file", "parsed"}
        /\ cli.functions
        /\ Extension(searched_path) \in {Some(<<"j", "s">>), Some(<<"t", "s">>)})
           => \A k \in 1..Len(StrLines(filtered)) : ~ControlFlowLine(StrLines(filtered)[k])
    /\ pc = "parsed"
           => \A k \in 1..Len(parsed) :
                  ~ControlFlowLine(StrLines(fsys[searched_path].content)[parsed[k]])

====
